---- MODULE Spec2Model ----
(***************************************************************************)
(* First-run tutorial of localis-app: the narrator engine (FRT) with its   *)
(* render procedure, navigation handlers, timers and required-action       *)
(* gates, and the collaborators that call back into it (model loader,      *)
(* tutorial chat, final review commit, questionnaire wizard).              *)
(*                                                                         *)
(* Handlers are written as operators from a world record (all variables)   *)
(* to a world record, so that the statements of a handler compose in the   *)
(* order of the source.  Time is abstracted: a pending timer or request    *)
(* may complete at any moment.                                             *)
(***************************************************************************)
EXTENDS Integers, Sequences, FiniteSets, Bags, TLC

VARIABLES
    FRT,              \* the FRT singleton (stage, play-head, flags, gate)
    body,             \* document.body.classList, restricted to the classes the engine reads
    dom,              \* DOM properties the handlers read or write
    state,            \* the `state` object of the application
    firstRunComplete, \* localStorage 'localmind_first_run_complete' is present
    renders,          \* bag of renderPart invocations suspended at an await
    autoTimers,       \* bag of pending auto-advance timeouts
    net,              \* requests in flight
    timers,           \* other pending timeouts
    rpg,              \* the questionnaire wizard's screens and controls
    run,              \* the kind of run: which of the bounded events it may hold
    used,             \* history: how many of the bounded events have happened
    gateMet,          \* history: the part's own required action was performed since the part was entered
    anyQuestion,      \* history: the chat message that last satisfied the chat_any gate
    mismatches,       \* history: submissions the chat_repeat gate counted as mismatches since it was armed
    flagWrites,       \* history: calls of markFirstRunComplete
    tw,               \* one invocation of UX.typeWriter: its element, its closure and its timeout
    packet,           \* context part 3: its steps, the placeholder element, the hook's wait and request
    names,            \* name placeholders: what replaceNamePlaceholder reads and writes, its last call
    wizard,           \* the RPG object: its screens, current question, answers and navigation controls
    setupw,           \* the setup wizard: its overlay, its timers, its requests and the server's answers
    updater           \* the updater: its sidebar button, its modal and its requests

engineVars == <<FRT, body, dom, state, firstRunComplete, renders, autoTimers, net, timers, rpg,
                run, used, gateMet, anyQuestion, mismatches, flagWrites>>

vars == <<engineVars, tw, packet, names, wizard, setupw, updater>>

----------------------------------------------------------------------------
(* Bounds *)

MaxAttempts == 2   \* gate-refused forward clicks counted per gate
MaxLoads == 2      \* clicks on the load button in a run that reloads
MaxBacks == 1      \* clicks on Back in a run that goes back
MaxOverlaps == 4   \* renders started while another one is suspended, in a run that overlaps renders
MaxErrors == 1     \* pending timeouts that hide the final review's inline error, in a run that retries
MaxLaunch == 1     \* pending wizard launches
MaxLoading == 1    \* pending wizard loading-stage timeouts
MaxIdle == 2       \* idle timeouts that fire in a run that follows the optional line
MaxRenders == 12   \* calls of renderPart in a run that follows the optional line
MaxRefusals == 4   \* forward clicks refused by one gate, where the deterrent lines are studied
MaxHistory == 4    \* entries of the tutorial history, where the chat is studied on its own
MaxStatus == 2     \* status requests of the updater in flight
MaxBehind == 2     \* commits the working tree is behind its upstream

\* A run reloads the model, or goes back, or lets renders overlap, or has commit requests fail,
\* or follows the optional line of the narrator (its idle timeouts, the kind of the line shown
\* last and the timeouts that reset it) until MaxIdle idle timeouts have fired, with one Back
\* click, one render that overlaps another and MaxRenders renders in all;
\* every run loads the model once, and a run that reloads holds one pending wizard timeout of
\* each kind.
Runs == {"reload", "back", "overlap", "retry", "idle"}

Limit(r) ==
    [loads    |-> IF r = "reload" THEN MaxLoads ELSE 1,
     backs    |-> IF r = "back" THEN MaxBacks ELSE IF r = "idle" THEN 1 ELSE 0,
     overlaps |-> IF r = "overlap" THEN MaxOverlaps ELSE IF r = "idle" THEN 1 ELSE 0,
     resets   |-> IF r = "idle" THEN 3 ELSE 0,
     idle     |-> IF r = "idle" THEN MaxIdle ELSE 0,
     errors   |-> IF r = "retry" THEN MaxErrors ELSE 0,
     launch   |-> IF r = "reload" THEN 1 ELSE MaxLaunch,
     loading  |-> IF r = "reload" THEN 1 ELSE MaxLoading]
MaxText == 3       \* characters of a string handed to the typewriter
MaxSubmits == 2    \* pending timeouts of the wizard's loading screen
MaxTokens == 3     \* tokens of a narrator string handed to replaceNamePlaceholder
MaxCaps == 4       \* capabilities in an answer set handed to generateSystemPrompt
MaxFrames == 3     \* animation frames within the 1200 ms that waitForElementById waits

----------------------------------------------------------------------------
(* The script table: FRT.scripts *)

TrackNames == {"intro", "model", "system_prompt", "context", "memory"}

\* number of steps of each part; index 0 of every track is null
scripts ==
    [intro         |-> <<7, 5, 7, 4, 3>>,
     model         |-> <<11, 14, 3, 3>>,
     system_prompt |-> <<2, 2, 7, 5, 5, 4, 2, 5, 6, 0, 4, 5>>,
     context       |-> <<10, 8, 8, 10>>,
     memory        |-> <<12, 10, 9, 7, 9>>]

\* variant: the last index taken one too small
getMaxPart_short(t) == Len(scripts[t]) - 1

getMaxPart(t) == Len(scripts[t])

HasPart(t, i) == i \in DOMAIN scripts[t]

requires(t, i) ==
    IF t = "system_prompt" /\ i = 4 THEN [kind |-> "chat_any", soft_after |-> 0]
    ELSE IF t = "system_prompt" /\ i = 7 THEN [kind |-> "chat_repeat", soft_after |-> 2]
    ELSE IF t = "memory" /\ i = 5 THEN [kind |-> "final_review_confirm", soft_after |-> 0]
    ELSE [kind |-> "none", soft_after |-> 0]

onEnter(t, i) ==
    IF t = "model" /\ i = 4 THEN "SHOW_MODEL_LOADER_RAIL"
    ELSE IF t = "system_prompt" /\ i = 4 THEN "ENABLE_SPLIT_CHAT"
    ELSE IF t = "system_prompt" /\ i = 6 THEN "SWAP_PROMPT_PIRATE"
    ELSE IF t = "system_prompt" /\ i = 8 THEN "SWAP_PROMPT_DEFAULT"
    ELSE IF t = "system_prompt" /\ i = 10 THEN "LAUNCH_SYSTEM_PROMPT_RPG"
    ELSE IF t = "system_prompt" /\ i = 11 THEN "DISABLE_SPLIT_CHAT"
    ELSE IF t = "context" /\ i = 3 THEN "LOAD_CONTEXT_PACKET"
    ELSE IF t = "memory" /\ i = 5 THEN "SHOW_FINAL_REVIEW"
    ELSE "none"

\* the idle line a part declares, named by the part (the lines of the script are all
\* different); <<>> if the part declares none
idleLine(t, i) ==
    IF t = "model" \/ (t = "system_prompt" /\ i = 10) THEN <<>> ELSE <<t, i>>

\* the part declares a line for a forward click made while it is typed
earlyClickLine(t, i) ==
    \/ t = "intro" /\ i = 1
    \/ t = "system_prompt" /\ i \in 1..3
    \/ t \in {"context", "memory"}

\* the part declares a line for a key pressed on the locked page
typingAttemptLine(t, i) ==
    \/ t = "intro"
    \/ t = "system_prompt" /\ i \in 1..3

\* the part declares a line for a click on the locked page
clickAttemptLine(t, i) ==
    \/ t = "intro"
    \/ t = "system_prompt" /\ i \in 1..3

\* a part without steps renders without suspending
HasSteps(t, i) == scripts[t][i] > 0

----------------------------------------------------------------------------
(* Strings: sequences of characters over a small alphabet *)

Lower(c) == IF c = "A" THEN "a" ELSE IF c = "B" THEN "b" ELSE c

toLowerCase(s) == [k \in 1..Len(s) |-> Lower(s[k])]

RECURSIVE trimStart(_)
trimStart(s) == IF s # <<>> /\ Head(s) = " " THEN trimStart(Tail(s)) ELSE s

RECURSIVE trimEnd(_)
trimEnd(s) == IF s # <<>> /\ s[Len(s)] = " " THEN trimEnd(SubSeq(s, 1, Len(s) - 1)) ELSE s

trim(s) == trimEnd(trimStart(s))

TUTORIAL_PROMPT_PIRATE == <<"You are a friendly pirate assistant.">>

TUTORIAL_PROMPT_DEFAULT == <<"You are a helpful AI assistant.", " ", "Provide">>

\* values the user may leave in the chat input before sending
PromptValues == { <<"A">>, <<" ", "a", " ">>, <<"b">>, <<" ">> }

----------------------------------------------------------------------------
(* UX.typeWriter: one invocation on one element *)

Chars == {"a", ",", "."}

Texts == UNION {[1..n -> Chars] : n \in 0..MaxText}

\* an element with earlier content, and no invocation yet
NoTypeWriter ==
    [text |-> <<>>, textContent |-> <<"a">>, cursor |-> FALSE, i |-> 0, called |-> FALSE,
     timeout |-> FALSE, resolved |-> FALSE, skipRequested |-> FALSE, skippedAt |-> -1]

\* the branch taken when shouldSkip() answers true
typeSkip(t) ==
    [t EXCEPT !.textContent = t.text, !.cursor = FALSE, !.resolved = TRUE,
              !.timeout = FALSE, !.skippedAt = t.i]

typeChar_leavePartial(t) ==
    IF t.skipRequested
    THEN [t EXCEPT !.cursor = FALSE, !.resolved = TRUE, !.timeout = FALSE, !.skippedAt = t.i]
    ELSE IF t.i < Len(t.text)
         THEN [t EXCEPT !.textContent = Append(@, t.text[t.i + 1]), !.i = @ + 1,
                        !.timeout = TRUE]
         ELSE [t EXCEPT !.cursor = FALSE, !.resolved = TRUE, !.timeout = FALSE]

\* the closure typeChar: one character per call, then a timeout for the next call
typeChar(t) ==
    IF t.skipRequested
    THEN typeSkip(t)
    ELSE IF t.i < Len(t.text)
         THEN [t EXCEPT !.textContent = Append(@, t.text[t.i + 1]), !.i = @ + 1,
                        !.timeout = TRUE]
         ELSE [t EXCEPT !.cursor = FALSE, !.resolved = TRUE, !.timeout = FALSE]

\* typeWriter(element, text, speed, opts): the synchronous part, up to the first timeout
typeWriter(t) ==
    LET t0 == [t EXCEPT !.called = TRUE, !.cursor = TRUE, !.textContent = <<>>, !.i = 0]
    IN IF t0.skipRequested THEN typeSkip(t0) ELSE typeChar(t0)

TypeWriterCall ==
    /\ ~tw.called
    /\ tw' = typeWriter(tw)
    /\ UNCHANGED <<engineVars, packet, names, wizard, setupw, updater>>

TypeCharTimeout ==
    /\ tw.timeout
    /\ tw' = typeChar(tw)
    /\ UNCHANGED <<engineVars, packet, names, wizard, setupw, updater>>

\* a click or key press sets FRT.skipRequested, which shouldSkip reads
SkipRequest ==
    /\ ~tw.resolved
    /\ ~tw.skipRequested
    /\ tw' = [tw EXCEPT !.skipRequested = TRUE]
    /\ UNCHANGED <<engineVars, packet, names, wizard, setupw, updater>>

\* the start of another render clears FRT.skipRequested
SkipReset ==
    /\ ~tw.resolved
    /\ tw.skipRequested
    /\ tw' = [tw EXCEPT !.skipRequested = FALSE]
    /\ UNCHANGED <<engineVars, packet, names, wizard, setupw, updater>>

----------------------------------------------------------------------------
(* The context packet of context part 3: hook LOAD_CONTEXT_PACKET and the part's steps *)

\* the step of context part 3 that appends the placeholder element
PlaceholderStep == 5

\* the hook has just been called by renderPart(3), before the first step: clearNarrator has
\* emptied the narrator, the first check of waitForElementById found nothing
NoPacket ==
    [step |-> 0, el |-> "absent", left |-> FALSE,
     waiter |-> "polling", frames |-> 0, fetch |-> "none"]

\* renderPacket(data, isReal): the placeholder's content is replaced by label and packet
renderPacket(p, isReal) == [p EXCEPT !.el = IF isReal THEN "real" ELSE "sample"]

\* check() of waitForElementById on an animation frame, and what the hook does with the answer
waitCheck(p) ==
    IF p.el # "absent"
    THEN [renderPacket(p, FALSE) EXCEPT !.waiter = "found", !.fetch = "pending"]
    ELSE IF p.frames < MaxFrames
         THEN [p EXCEPT !.frames = @ + 1]
         ELSE [p EXCEPT !.waiter = "null"]

\* the next step of the part is performed; the code step appends the placeholder
PacketStep ==
    /\ packet.step < scripts["context"][3]
    /\ packet' = [packet EXCEPT !.step = @ + 1,
                                !.el = IF packet.step + 1 = PlaceholderStep THEN "loading" ELSE @]
    /\ UNCHANGED <<engineVars, tw, names, wizard, setupw, updater>>

PacketFrame ==
    /\ packet.waiter = "polling"
    /\ packet' = waitCheck(packet)
    /\ UNCHANGED <<engineVars, tw, names, wizard, setupw, updater>>

\* fetchDebugContext resolves with success true: the real packet replaces the sample if the
\* placeholder is still in the document
PacketFetchOk ==
    /\ packet.fetch = "pending"
    /\ packet' = [(IF packet.el # "absent" THEN renderPacket(packet, TRUE) ELSE packet)
                     EXCEPT !.fetch = "success"]
    /\ UNCHANGED <<engineVars, tw, names, wizard, setupw, updater>>

\* an error response or a network error: fetchDebugContext resolves with success false
PacketFetchError ==
    /\ packet.fetch = "pending"
    /\ packet' = [packet EXCEPT !.fetch = "error"]
    /\ UNCHANGED <<engineVars, tw, names, wizard, setupw, updater>>

\* the abort after 1500 ms: fetchDebugContext resolves with success false
PacketFetchTimeout ==
    /\ packet.fetch = "pending"
    /\ packet' = [packet EXCEPT !.fetch = "timeout"]
    /\ UNCHANGED <<engineVars, tw, names, wizard, setupw, updater>>

\* the render of another part after the steps have ended: clearNarrator removes the element
PacketLeave ==
    /\ packet.step = scripts["context"][3]
    /\ ~packet.left
    /\ packet' = [packet EXCEPT !.el = "absent", !.left = TRUE]
    /\ UNCHANGED <<engineVars, tw, names, wizard, setupw, updater>>

----------------------------------------------------------------------------
(* Name placeholders in narrator strings: replaceNamePlaceholder *)

\* a narrator string is a sequence of tokens: a word, a comma, a space, the placeholder
Placeholder == "{name}"

NameTokens == {"Thanks", ",", " ", Placeholder}

NameTexts == UNION {[1..n -> NameTokens] : n \in 0..MaxTokens}

NameLimitedTracks == {"system_prompt", "context", "memory"}

\* no string processed yet: FRT.nameUsedByTrack is empty
NoNames ==
    [track |-> "intro", firstRun |-> FALSE, name |-> "", used |-> FALSE,
     calls |-> 0, text |-> <<>>, out |-> <<>>, before |-> FALSE, usedBefore |-> FALSE]

\* the string contains the placeholder
HasName(text) == \E k \in 1..Len(text) : text[k] = Placeholder

\* text.replace(/{name}/g, n)
replaceName(text, n) == [k \in 1..Len(text) |-> IF text[k] = Placeholder THEN n ELSE text[k]]

\* text.replace(/,\s*\{name\}/g, "")
RECURSIVE removeCommaName(_)
removeCommaName(text) ==
    IF text = <<>> THEN <<>>
    ELSE LET rest == trimStart(Tail(text))
         IN  IF Head(text) = "," /\ rest # <<>> /\ Head(rest) = Placeholder
             THEN removeCommaName(Tail(rest))
             ELSE <<Head(text)>> \o removeCommaName(Tail(text))

\* text.replace(/\{name\}/g, "")
removeName(text) == SelectSeq(text, LAMBDA c : c # Placeholder)

\* replaceNamePlaceholder(text): the string returned and the flag of the track
replaceNamePlaceholder(n, text) ==
    LET finalName == IF n.name # "" THEN n.name ELSE "user"
    IN
    IF n.firstRun /\ n.track \in {"intro", "model"}
    THEN [n EXCEPT !.out = replaceName(text, "user")]
    ELSE IF n.name # "" /\ n.track \in NameLimitedTracks
         THEN IF ~n.used
              THEN [n EXCEPT !.used = TRUE, !.out = replaceName(text, finalName)]
              ELSE [n EXCEPT !.out = removeName(removeCommaName(text))]
         ELSE [n EXCEPT !.out = replaceName(text, finalName)]

\* processPartWithName hands the next string of the track to replaceNamePlaceholder
ProcessString ==
    \E text \in NameTexts :
        /\ names' = [replaceNamePlaceholder(names, text) EXCEPT
                        !.calls = IF @ = 0 THEN 1 ELSE @,
                        !.text = text,
                        !.before = names.before
                                   \/ (names.calls > 0 /\ HasName(names.text)),
                        !.usedBefore = names.used]
        /\ UNCHANGED <<engineVars, tw, packet, wizard, setupw, updater>>

----------------------------------------------------------------------------
(* The questionnaire wizard: questions, answers and navigation controls *)

\* RPG_QUESTIONS, indexed from 0 as in the source
RPG_QUESTIONS ==
    [i \in 0..5 |->
        CASE i = 0 -> [id |-> "name", type |-> "text", optional |-> FALSE]
          [] i = 1 -> [id |-> "domain", type |-> "single", optional |-> FALSE]
          [] i = 2 -> [id |-> "style", type |-> "single", optional |-> FALSE]
          [] i = 3 -> [id |-> "capabilities", type |-> "multi", optional |-> FALSE]
          [] i = 4 -> [id |-> "identity", type |-> "identity", optional |-> TRUE]
          [] i = 5 -> [id |-> "custom", type |-> "text", optional |-> TRUE]]

LastQuestion == 5

maxChoices == 3

\* what the user may leave in a text input
TextValues == {<<>>, <<" ">>, <<"a">>}

SingleChoices == {"first", "second"}

MultiChoices == {"A", "B", "c", "d"}

\* the elements of an array
Elements(a) == {a[k] : k \in 1..Len(a)}

\* Array.prototype.push
push(a, x) == Append(a, x)

\* Array.prototype.filter with the predicate c => c !== x
filterOut(a, x) == SelectSeq(a, LAMBDA c : c # x)

\* the RPG object after init(), the overlay hidden.  answers.preferred_name and
\* answers.identity are the fields preferred_name and location of answers.identity; checked:
\* the choices whose checkbox in the choices container is checked; loading: the prompts held
\* by the pending timeouts of the loading screen, oldest first; editor, charCount: the
\* review screen's text area and counter; saveBtnDisabled: the use-prompt button; save: the
\* prompts of the save requests in flight; resume: the pending timeouts of a successful
\* save; session: sessionStorage, a missing key being <<>>; userPreferredName: the window's
NoWizard ==
    [hidden |-> TRUE, currentIndex |-> 0,
     answers |-> [name |-> <<>>, preferred_name |-> <<>>, domain |-> "", style |-> "",
                  capabilities |-> <<>>, identity |-> <<>>, custom |-> <<>>],
     checked |-> {},
     backDisabled |-> FALSE, nextDisabled |-> FALSE,
     loading |-> <<>>, review |-> FALSE, editor |-> <<>>, charCount |-> 0,
     saveBtnDisabled |-> FALSE, save |-> <<>>, resume |-> 0,
     session |-> [rpg_answers |-> <<>>, rpg_system_prompt |-> <<>>,
                  user_preferred_name |-> <<>>, rpg_tier_a |-> <<>>],
     userPreferredName |-> <<>>]

\* variant: a required text is accepted when it is not empty, blanks included
updateNavigation_noTrim(z) ==
    LET question == RPG_QUESTIONS[z.currentIndex]
        isValid == CASE question.type = "text" ->
                            question.optional \/ z.answers[question.id] # <<>>
                     [] question.type = "single" -> z.answers[question.id] # ""
                     [] question.type = "multi" -> z.answers[question.id] # <<>>
                     [] question.type = "identity" -> TRUE
    IN  [z EXCEPT !.backDisabled = (z.currentIndex = 0), !.nextDisabled = ~isValid]

updateNavigation(z) ==
    LET question == RPG_QUESTIONS[z.currentIndex]
        isValid == CASE question.type = "text" ->
                            question.optional \/ Len(trim(z.answers[question.id])) > 0
                     [] question.type = "single" -> z.answers[question.id] # ""
                     [] question.type = "multi" -> Len(z.answers[question.id]) > 0
                     [] question.type = "identity" -> TRUE
    IN  [z EXCEPT !.backDisabled = (z.currentIndex = 0), !.nextDisabled = ~isValid]

\* renderMultiChoice(): a checkbox per choice, checked when the answer includes the choice
renderMultiChoice(z) ==
    [z EXCEPT !.checked = {c \in MultiChoices : c \in Elements(z.answers.capabilities)}]

\* render(): the choices container is emptied, the current question is drawn from the
\* answers, then the controls are updated
wizardRender(z) ==
    updateNavigation(IF RPG_QUESTIONS[z.currentIndex].type = "multi"
                     THEN renderMultiChoice(z)
                     ELSE [z EXCEPT !.checked = {}])

\* variant: the change listener of a checkbox without the limit on the number of choices
checkboxChange_noMax(z, choice) ==
    IF choice \notin z.checked
    THEN updateNavigation([z EXCEPT !.checked = @ \cup {choice},
                                    !.answers.capabilities = push(@, choice)])
    ELSE updateNavigation([z EXCEPT !.checked = @ \ {choice},
                                    !.answers.capabilities = filterOut(@, choice)])

\* the change listener of the checkbox of choice: the browser has toggled the box, then the
\* listener reads it; a box checked beyond maxChoices is unchecked again
checkboxChange(z, choice) ==
    LET z1 == [z EXCEPT !.checked = IF choice \in @ THEN @ \ {choice} ELSE @ \cup {choice}]
    IN  IF choice \in z1.checked
        THEN IF Len(z1.answers.capabilities) >= maxChoices
             THEN [z1 EXCEPT !.checked = @ \ {choice}]
             ELSE updateNavigation([z1 EXCEPT !.answers.capabilities = push(@, choice)])
        ELSE updateNavigation([z1 EXCEPT !.answers.capabilities = filterOut(@, choice)])

wizardShow(z) == wizardRender([z EXCEPT !.currentIndex = 0, !.hidden = FALSE])

domainMap == [first |-> "domain phrase of first", second |-> "domain phrase of second"]

styleMap == [first |-> "style paragraph of first", second |-> "style paragraph of second"]

paragraph == "\n\n"

\* Array.prototype.join
RECURSIVE join(_, _)
join(a, sep) ==
    IF a = <<>> THEN <<>>
    ELSE IF Len(a) = 1 THEN a
    ELSE <<Head(a), sep>> \o join(Tail(a), sep)

\* variant: the clause built on the answers' own array, lower-cased and popped in place
capabilityClause_noCopy(capabilities) ==
    LET capsList == toLowerCase(capabilities)
        n == Len(capsList)
    IN  IF n = 1
        THEN [text |-> <<paragraph, "You specialize in ", capsList[1], ".">>,
              capabilities |-> capsList]
        ELSE IF n = 2
        THEN [text |-> <<paragraph, "You excel at ", capsList[1], " and ", capsList[2], ".">>,
              capabilities |-> capsList]
        ELSE [text |-> <<paragraph, "You excel at ">> \o join(SubSeq(capsList, 1, n - 1), ", ")
                          \o <<", and ", capsList[n], ".">>,
              capabilities |-> SubSeq(capsList, 1, n - 1)]

\* the capability clause of generateSystemPrompt for a non-empty array, and the array after
\* it: capabilities.map(c => c.toLowerCase()) is a new array, from which the last is popped
capabilityClause(capabilities) ==
    LET capsList == toLowerCase(capabilities)
    IN  IF Len(capsList) = 1
        THEN [text |-> <<paragraph, "You specialize in ", capsList[1], ".">>,
              capabilities |-> capabilities]
        ELSE IF Len(capsList) = 2
        THEN [text |-> <<paragraph, "You excel at ", capsList[1], " and ", capsList[2], ".">>,
              capabilities |-> capabilities]
        ELSE LET lastCap == capsList[Len(capsList)]
                 popped == SubSeq(capsList, 1, Len(capsList) - 1)
             IN  [text |-> <<paragraph, "You excel at ">> \o join(popped, ", ")
                               \o <<", and ", lastCap, ".">>,
                  capabilities |-> capabilities]

\* generateSystemPrompt(answers): the prompt it returns and the answers object after the call
generateSystemPrompt(answers) ==
    LET name == answers.preferred_name
        domain == answers.domain
        style == answers.style
        capabilities == answers.capabilities
        custom == answers.custom
        p0 == <<"You are an AI assistant">>
        p1 == IF name # <<>> /\ trim(name) # <<>> THEN p0 \o <<" for ">> \o trim(name) ELSE p0
        p2 == IF domain # "" /\ domain \in DOMAIN domainMap
              THEN p1 \o <<", ", domainMap[domain]>> ELSE p1
        p3 == p2 \o <<".">>
        p4 == IF style # "" /\ style \in DOMAIN styleMap
              THEN p3 \o <<paragraph, styleMap[style]>> ELSE p3
        p5 == IF Len(capabilities) > 0 THEN p4 \o capabilityClause(capabilities).text ELSE p4
        p6 == IF custom # <<>> /\ trim(custom) # <<>>
              THEN p5 \o <<paragraph, "Additional guidance: ">> \o trim(custom) ELSE p5
    IN  [prompt |-> trim(p6),
         answers |-> IF Len(capabilities) > 0
                     THEN [answers EXCEPT !.capabilities = capabilityClause(capabilities).capabilities]
                     ELSE answers]

\* submit(): the prompt is generated, answers and prompt are stored, the loading screen is
\* shown and its timeout set, holding the prompt
wizardSubmit(z) ==
    LET g == generateSystemPrompt(z.answers)
    IN  [z EXCEPT !.answers = g.answers,
                  !.session.rpg_answers = <<g.answers>>,
                  !.session.rpg_system_prompt = g.prompt,
                  !.loading = Append(@, g.prompt)]

\* showReview(prompt)
showReview(z, prompt) ==
    [z EXCEPT !.editor = prompt, !.charCount = Len(prompt), !.review = TRUE]

goBack(z) ==
    IF z.currentIndex > 0 THEN wizardRender([z EXCEPT !.currentIndex = @ - 1]) ELSE z

goNext(z) ==
    IF z.currentIndex < LastQuestion
    THEN wizardRender([z EXCEPT !.currentIndex = @ + 1])
    ELSE wizardSubmit(z)

\* a question is on screen and its inputs can be used
QuestionShown == ~wizard.hidden /\ wizard.loading = <<>>

WizardVars == <<engineVars, tw, packet, names, setupw, updater>>

\* RPG.show(), called by the launch choreography of system_prompt part 10, which runs at
\* each entry of the part
WizardShow ==
    /\ ~wizard.review
    /\ wizard' = wizardShow(wizard)
    /\ UNCHANGED WizardVars

\* the input event of the text input of a text question
WizardType ==
    /\ QuestionShown
    /\ RPG_QUESTIONS[wizard.currentIndex].type = "text"
    /\ \E v \in TextValues :
           LET id == RPG_QUESTIONS[wizard.currentIndex].id
               z == [wizard EXCEPT !.answers[id] = v]
           IN  wizard' = updateNavigation(
                             IF id = "name" THEN [z EXCEPT !.answers.preferred_name = trim(v)]
                             ELSE z)
    /\ UNCHANGED WizardVars

\* the change event of a radio button
WizardSelect ==
    /\ QuestionShown
    /\ RPG_QUESTIONS[wizard.currentIndex].type = "single"
    /\ \E c \in SingleChoices :
           wizard' = updateNavigation(
                         [wizard EXCEPT !.answers[RPG_QUESTIONS[wizard.currentIndex].id] = c])
    /\ UNCHANGED WizardVars

\* the change event of a checkbox
WizardToggle ==
    /\ QuestionShown
    /\ RPG_QUESTIONS[wizard.currentIndex].type = "multi"
    /\ \E c \in MultiChoices : wizard' = checkboxChange(wizard, c)
    /\ UNCHANGED WizardVars

\* the input event of the location field of the identity form
WizardIdentity ==
    /\ QuestionShown
    /\ RPG_QUESTIONS[wizard.currentIndex].type = "identity"
    /\ \E v \in TextValues :
           wizard' = updateNavigation([wizard EXCEPT !.answers.identity = v])
    /\ UNCHANGED WizardVars

\* a click on the Next control, which a disabled control does not receive
WizardNextClick ==
    /\ QuestionShown
    /\ ~wizard.nextDisabled
    /\ wizard' = goNext(wizard)
    /\ UNCHANGED WizardVars

\* the keydown listener of the document: Enter while the overlay is not hidden
WizardEnterKey ==
    /\ ~wizard.hidden
    /\ ~wizard.nextDisabled
    /\ Len(wizard.loading) < MaxSubmits
    /\ wizard' = goNext(wizard)
    /\ UNCHANGED WizardVars

WizardBackClick ==
    /\ QuestionShown
    /\ ~wizard.backDisabled
    /\ wizard' = goBack(wizard)
    /\ UNCHANGED WizardVars

\* the timeout of submit(): hideLoading(), hide(), showReview()
WizardLoadingDone ==
    /\ wizard.loading # <<>>
    /\ wizard' = showReview([wizard EXCEPT !.loading = Tail(@), !.hidden = TRUE],
                             Head(wizard.loading))
    /\ UNCHANGED WizardVars

\* RPG.DEFAULT_PROMPT
DEFAULT_PROMPT == <<"You are a helpful AI assistant.", " ", "You provide", " ", "You adapt">>

\* what the user may leave in the text area of the review screen
EditorValues == {<<>>, <<" ">>, <<" ", "a">>}

\* the input listener of the text area
ReviewInput ==
    /\ wizard.review
    /\ \E v \in EditorValues : wizard' = [wizard EXCEPT !.editor = v, !.charCount = Len(v)]
    /\ UNCHANGED WizardVars

\* variant: Start Over answered with OK leaves the counter as it was
startOverOk_staleCount(z) == [z EXCEPT !.editor = DEFAULT_PROMPT]

\* Start Over answered with OK: the default template is loaded
startOverOk(z) == [z EXCEPT !.editor = DEFAULT_PROMPT, !.charCount = Len(DEFAULT_PROMPT)]

\* Start Over answered with Cancel: hideReview(), show(), then the last question is rendered
startOverCancel(z) ==
    wizardRender([wizardShow([z EXCEPT !.review = FALSE]) EXCEPT !.currentIndex = LastQuestion])

\* variant: the catch block without the re-enabling of the button
saveFail_keepDisabled(z) == [z EXCEPT !.save = Tail(@)]

\* saveSystemPrompt(prompt) up to its fetch
saveSystemPrompt(z, prompt) == [z EXCEPT !.saveBtnDisabled = TRUE, !.save = Append(@, prompt)]

\* the click listener of the use-prompt button
usePromptClick(z) ==
    LET finalPrompt == trim(z.editor)
    IN  IF finalPrompt = <<>> THEN z ELSE saveSystemPrompt(z, finalPrompt)

\* the request succeeded: the wizard's part of the second then-callback; answers is a shallow
\* copy, its identity still the wizard's own object
saveOk(z) ==
    LET prompt == Head(z.save)
        effectiveName == IF z.answers.preferred_name # <<>> THEN z.answers.preferred_name
                         ELSE <<"Anonymous">>
    IN  [z EXCEPT !.save = Tail(@),
                  !.session.rpg_system_prompt = prompt,
                  !.session.user_preferred_name = effectiveName,
                  !.session.rpg_tier_a = <<[preferred_name |-> z.answers.preferred_name,
                                            location |-> z.answers.identity]>>,
                  !.userPreferredName = effectiveName,
                  !.resume = @ + 1]

\* the request failed: the catch block
saveFail(z) == [z EXCEPT !.save = Tail(@), !.saveBtnDisabled = FALSE]

WizardStartOverOk ==
    /\ wizard.review
    /\ wizard' = startOverOk(wizard)
    /\ UNCHANGED WizardVars

WizardBackToQuestions ==
    /\ wizard.review
    /\ wizard' = startOverCancel(wizard)
    /\ UNCHANGED WizardVars

\* a click on the use-prompt button, which a disabled button does not receive
WizardUsePromptClick ==
    /\ wizard.review
    /\ ~wizard.saveBtnDisabled
    /\ wizard' = usePromptClick(wizard)
    /\ UNCHANGED WizardVars

\* the engine's variables but state
ReviewVars ==
    <<FRT, body, dom, firstRunComplete, renders, autoTimers, net, timers, rpg, run, used,
      gateMet, anyQuestion, mismatches, flagWrites, tw, packet, names, setupw, updater>>

WizardSaveOk ==
    /\ wizard.save # <<>>
    /\ wizard' = saveOk(wizard)
    /\ state' = [state EXCEPT !.tutorialSystemPromptId = "custom",
                               !.tutorialSystemPromptText = Head(wizard.save),
                               !.rpg_tier_a = TRUE]
    /\ UNCHANGED ReviewVars

WizardSaveFail ==
    /\ wizard.save # <<>>
    /\ wizard' = saveFail(wizard)
    /\ UNCHANGED WizardVars

\* the timeout of a successful save outside the tutorial: hideReview(), hide(), alert
WizardResume ==
    /\ wizard.resume > 0
    /\ "first-run-tutorial" \notin body
    /\ wizard' = [wizard EXCEPT !.resume = @ - 1, !.review = FALSE, !.hidden = TRUE]
    /\ UNCHANGED WizardVars

----------------------------------------------------------------------------
(* setup_wizard.js: runWizard, its polling interval, its buttons and the server it asks *)

\* stage: where runWizard is ("none": not called, "refresh": at its first await, "waiting": at
\* the promise that waits for the overlay to be hidden, "returned", "failed": the first
\* refresh was rejected); intervals: the status-polling intervals that are active; polling:
\* the variable `polling` names one; watcher: the 200 ms interval of the wait; download: a
\* download request is in flight; server: what /setup/status answers
NoSetup ==
    [stage |-> "none", visible |-> FALSE, intervals |-> 0, polling |-> FALSE, watcher |-> FALSE,
     download |-> FALSE, btnDownloadDisabled |-> FALSE, status |-> "",
     server |-> [has_any_model |-> FALSE, download |-> "none"]]

stopPoll(z) ==
    IF z.polling THEN [z EXCEPT !.intervals = @ - 1, !.polling = FALSE] ELSE z

\* variant: a new interval without stopping the one that runs
startPoll_noStop(z) == [z EXCEPT !.intervals = @ + 1, !.polling = TRUE]

startPoll(z) == [stopPoll(z) EXCEPT !.intervals = @ + 1, !.polling = TRUE]

\* refresh() when /setup/status has answered: the last setStatus wins
refresh(z) ==
    LET st == z.server
        s1 == IF ~st.has_any_model THEN "no-gguf" ELSE "detected"
        s2 == IF st.download = "downloading" THEN "downloading" ELSE s1
        s3 == IF st.download = "done" THEN "downloaded" ELSE s2
        s4 == IF st.download = "error" THEN "download-failed" ELSE s3
    IN  [z EXCEPT !.status = s4]

SetupVars == <<engineVars, tw, packet, names, wizard, updater>>

\* runWizard() up to its first await
RunWizard ==
    /\ setupw.stage = "none"
    /\ setupw' = [setupw EXCEPT !.stage = "refresh", !.visible = TRUE]
    /\ UNCHANGED SetupVars

\* the first refresh has resolved: startPoll(), then the promise with its 200 ms interval
SetupFirstRefresh ==
    /\ setupw.stage = "refresh"
    /\ setupw' = [startPoll(refresh(setupw)) EXCEPT !.stage = "waiting", !.watcher = TRUE]
    /\ UNCHANGED SetupVars

\* the first refresh was rejected: runWizard is rejected too
SetupFirstRefreshFail ==
    /\ setupw.stage = "refresh"
    /\ setupw' = [setupw EXCEPT !.stage = "failed"]
    /\ UNCHANGED SetupVars

\* btnDownload.onclick up to its await
SetupDownloadClick ==
    /\ setupw.visible
    /\ ~setupw.btnDownloadDisabled
    /\ setupw' = [setupw EXCEPT !.btnDownloadDisabled = TRUE, !.download = TRUE]
    /\ UNCHANGED SetupVars

\* the download request has resolved: the server has started the download
SetupDownloadOk ==
    /\ setupw.download
    /\ setupw' = [startPoll(setupw) EXCEPT !.download = FALSE, !.btnDownloadDisabled = FALSE,
                                          !.server.download = "downloading"]
    /\ UNCHANGED SetupVars

SetupDownloadFail ==
    /\ setupw.download
    /\ setupw' = [setupw EXCEPT !.download = FALSE, !.btnDownloadDisabled = FALSE,
                                !.status = "request-failed"]
    /\ UNCHANGED SetupVars

\* the server's download ends, with the model or with an error
SetupServerDownload ==
    /\ setupw.server.download = "downloading"
    /\ \E ok \in BOOLEAN :
           setupw' = [setupw EXCEPT !.server.download = IF ok THEN "done" ELSE "error",
                                   !.server.has_any_model = @ \/ ok]
    /\ UNCHANGED SetupVars

\* a tick of a polling interval, or a click on Rescan: refresh()
SetupPollTick ==
    /\ setupw.intervals > 0
    /\ setupw' = refresh(setupw)
    /\ UNCHANGED SetupVars

SetupRescanClick ==
    /\ setupw.visible
    /\ setupw' = refresh(setupw)
    /\ UNCHANGED SetupVars

SetupSkipClick ==
    /\ setupw.visible
    /\ setupw' = [setupw EXCEPT !.status = "skipped"]
    /\ UNCHANGED SetupVars

\* btnContinue.onclick
SetupContinueClick ==
    /\ setupw.visible
    /\ setupw' = [stopPoll(setupw) EXCEPT !.visible = FALSE]
    /\ UNCHANGED SetupVars

\* a tick of the 200 ms interval finds the overlay hidden: the promise resolves, runWizard
\* calls stopPoll() and returns
SetupWatcherTick ==
    /\ setupw.watcher
    /\ ~setupw.visible
    /\ setupw' = [stopPoll(setupw) EXCEPT !.watcher = FALSE, !.stage = "returned"]
    /\ UNCHANGED SetupVars

----------------------------------------------------------------------------
(* updater_ui.js: the sidebar button, the modal, render(st) *)

\* values of JavaScript as the updater tests them: the type, and a number (the value of a
\* number, 1 or 0 for true or false, the length of a string)
JsBool(b) == [t |-> "boolean", n |-> IF b THEN 1 ELSE 0]

JsNum(n) == [t |-> "number", n |-> n]

JsNull == [t |-> "object", n |-> 0]

JsUndefined == [t |-> "undefined", n |-> 0]

JsStr(n) == [t |-> "string", n |-> n]

\* ToBoolean
Truthy(x) == x.t \in {"boolean", "number", "string"} /\ x.n # 0

\* the answers of /update/status
Statuses ==
    [supported : {JsBool(TRUE), JsBool(FALSE), JsUndefined},
     dirty     : {JsBool(TRUE), JsBool(FALSE), JsUndefined},
     behind    : {JsNum(n) : n \in 0..MaxBehind} \cup {JsNull, JsUndefined, JsStr(1)}]

NoStatus == [supported |-> JsUndefined, dirty |-> JsUndefined, behind |-> JsUndefined,
             rendered |-> FALSE]

\* button: the sidebar button exists; modal: the overlay exists; body: which text upd-body
\* shows; pending, apply: requests in flight; st: history, the status render was last called with
NoUpdater ==
    [button |-> FALSE, modal |-> FALSE, visible |-> FALSE, body |-> "", applyDisabled |-> FALSE,
     pending |-> 0, apply |-> 0, st |-> NoStatus]

ensureModal(u) ==
    IF u.modal THEN u ELSE [u EXCEPT !.modal = TRUE, !.body = "checking", !.applyDisabled = FALSE]

Rendered(st) == [supported |-> st.supported, dirty |-> st.dirty, behind |-> st.behind,
                 rendered |-> TRUE]

\* variant: the control enabled whenever behind is a number
render_anyNumber(u, st) ==
    IF ~Truthy(st.supported)
    THEN [u EXCEPT !.body = "unavailable", !.applyDisabled = TRUE, !.st = Rendered(st)]
    ELSE [u EXCEPT !.body = "status", !.st = Rendered(st),
                   !.applyDisabled = Truthy(st.dirty) \/ ~(st.behind.t = "number")]

render(u, st) ==
    IF ~Truthy(st.supported)
    THEN [u EXCEPT !.body = "unavailable", !.applyDisabled = TRUE, !.st = Rendered(st)]
    ELSE [u EXCEPT !.body = "status", !.st = Rendered(st),
                   !.applyDisabled = Truthy(st.dirty)
                                     \/ ~(st.behind.t = "number" /\ st.behind.n > 0)]

UpdaterVars == <<engineVars, tw, packet, names, wizard, setupw>>

\* a tick of the 800 ms interval: the button is added once the tutorial's flag is stored
EnsureSidebarButton ==
    /\ firstRunComplete
    /\ ~updater.button
    /\ updater' = [updater EXCEPT !.button = TRUE]
    /\ UNCHANGED UpdaterVars

\* the sidebar button's onclick up to its await
UpdaterOpenClick ==
    /\ updater.button
    /\ updater.pending < MaxStatus
    /\ updater' = [ensureModal(updater) EXCEPT !.visible = TRUE, !.pending = @ + 1]
    /\ UNCHANGED UpdaterVars

\* the Check button's onclick up to its await
UpdaterRefreshClick ==
    /\ updater.visible
    /\ updater.pending < MaxStatus
    /\ updater' = [updater EXCEPT !.pending = @ + 1]
    /\ UNCHANGED UpdaterVars

\* a status request has resolved with st
UpdaterStatusOk ==
    /\ updater.pending > 0
    /\ \E st \in Statuses :
           updater' = render([updater EXCEPT !.pending = @ - 1], st)
    /\ UNCHANGED UpdaterVars

UpdaterStatusFail ==
    /\ updater.pending > 0
    /\ updater' = [updater EXCEPT !.pending = @ - 1]
    /\ UNCHANGED UpdaterVars

\* the Update now button's onclick up to its await
UpdaterApplyClick ==
    /\ updater.visible
    /\ ~updater.applyDisabled
    /\ updater.apply < MaxStatus
    /\ updater' = [updater EXCEPT !.body = "applying", !.apply = @ + 1]
    /\ UNCHANGED UpdaterVars

UpdaterApplyOk ==
    /\ updater.apply > 0
    /\ updater' = [updater EXCEPT !.body = "complete", !.apply = @ - 1]
    /\ UNCHANGED UpdaterVars

UpdaterApplyFail ==
    /\ updater.apply > 0
    /\ updater' = [updater EXCEPT !.body = "failed", !.apply = @ - 1]
    /\ UNCHANGED UpdaterVars

UpdaterCloseClick ==
    /\ updater.visible
    /\ updater' = [updater EXCEPT !.visible = FALSE]
    /\ UNCHANGED UpdaterVars

----------------------------------------------------------------------------
(* The world record *)

World ==
    [FRT |-> FRT, body |-> body, dom |-> dom, state |-> state,
     firstRunComplete |-> firstRunComplete, renders |-> renders,
     autoTimers |-> autoTimers, net |-> net, timers |-> timers, rpg |-> rpg, used |-> used,
     gateMet |-> gateMet, anyQuestion |-> anyQuestion, mismatches |-> mismatches,
     flagWrites |-> flagWrites]

\* no chat request in flight
NoChat == [phase |-> "idle", msg |-> <<>>, tutorial |-> FALSE]

\* a render was started while another one was suspended
Overlap(w) == renders # EmptyBag /\ BagCardinality(w.renders) > BagCardinality(renders)

\* the play-head is where the question that met the chat_any gate still matters
InChatParts(w) == w.FRT.track = "system_prompt" /\ w.FRT.partIndex \in 4..7

\* the texts of the optional line: the line of a table of the script (the table, the track and the
\* index of its entry), or a fixed line named after the kind it is shown with
NoText == <<"", "", 0>>

Fixed(kind) == <<kind, "", 0>>

\* const antiSkipLines = ["Not yet.", "You can't speedrun character development.", "Do the thing."]
antiSkipLines == <<<<"antiSkipLines", "", 0>>, <<"antiSkipLines", "", 1>>, <<"antiSkipLines", "", 2>>>>

Min(a, b) == IF a < b THEN a ELSE b

\* what concerns the optional line alone is kept only while the run follows it, and the roles
\* of the entries of state.tutorialHistory only in the run "chat"
Followed(w) ==
    IF used.idle < Limit(run).idle THEN [w EXCEPT !.state.tutorialHistory = <<>>]
    ELSE [w EXCEPT !.FRT.lastOptionalKind = "other", !.timers.idle = EmptyBag,
                   !.timers.optionalReset = 0, !.dom.optional = NoText,
                   !.state.tutorialHistory = IF run = "chat" THEN @ ELSE <<>>]

Kept(w) ==
    /\ w.timers.rpgLaunch <= Limit(run).launch
    /\ w.timers.errorHide <= Limit(run).errors
    /\ w.timers.rpgLoading <= Limit(run).loading
    /\ w.timers.optionalReset <= Limit(run).resets
    /\ Len(w.state.tutorialHistory) <= MaxHistory
    /\ FRT' = w.FRT
    /\ body' = w.body
    /\ dom' = w.dom
    /\ state' = w.state
    /\ firstRunComplete' = w.firstRunComplete
    /\ renders' = w.renders
    /\ autoTimers' = w.autoTimers
    /\ net' = w.net
    /\ timers' = w.timers
    /\ rpg' = w.rpg
    /\ w.used.loads <= Limit(run).loads
    /\ w.used.backs <= Limit(run).backs
    /\ w.used.idle <= Limit(run).idle
    /\ run = "idle" => w.used.renders <= MaxRenders
    /\ Overlap(w) => w.used.overlaps < Limit(run).overlaps
    /\ used' = [w.used EXCEPT !.overlaps = IF Overlap(w) THEN @ + 1 ELSE @,
                              !.renders = IF run = "idle" THEN @ ELSE 0]
    /\ run' = run
    /\ mismatches' = w.mismatches
    /\ gateMet' = w.gateMet
    /\ anyQuestion' = IF InChatParts(w) THEN w.anyQuestion ELSE <<>>
    /\ flagWrites' = w.flagWrites
    /\ tw' = tw
    /\ packet' = packet
    /\ names' = names
    /\ wizard' = wizard
    /\ setupw' = setupw
    /\ updater' = updater

Assign(w) == Kept(Followed(w))

\* the engine after the script was loaded, before startApp ran
Loaded ==
    [FRT |-> [stage |-> "none", track |-> "intro", partIndex |-> 0,
              isTyping |-> FALSE, skipRequested |-> FALSE,
              autoAdvanceTimer |-> FALSE, autoAdvanceBlocked |-> FALSE,
              interactionListeners |-> FALSE, lastOptionalKind |-> "other",
              requiredAction |-> [kind |-> "none", satisfied |-> FALSE, attempts |-> 0,
                                  baselineQuestion |-> <<>>, soft_after |-> 0]],
     body |-> {},
     dom |-> [overlayDisplayed |-> FALSE, btnBackDisabled |-> FALSE, promptDisabled |-> TRUE,
              btnLoadDisabled |-> FALSE, finalReviewOverlay |-> FALSE,
              btnFinalReviewConfirmDisabled |-> FALSE, finalReviewError |-> FALSE,
              optional |-> NoText],
     state |-> [isGenerating |-> FALSE, tutorialSystemPromptId |-> "default",
                tutorialSystemPromptText |-> TUTORIAL_PROMPT_DEFAULT, rpg_tier_a |-> FALSE,
                tutorialHistory |-> <<>>],
     renders |-> EmptyBag,
     autoTimers |-> EmptyBag,
     net |-> [load |-> FALSE, chat |-> NoChat, commit |-> 0, save |-> FALSE],
     timers |-> [rpgLaunch |-> 0, rpgLoading |-> 0, rpgResume |-> FALSE, endTutorial |-> FALSE,
                 errorHide |-> 0, idle |-> EmptyBag, optionalReset |-> 0],
     rpg |-> [overlay |-> FALSE, review |-> FALSE, saveBtnDisabled |-> FALSE, prompt |-> <<>>],
     used |-> [loads |-> 0, backs |-> 0, overlaps |-> 0, idle |-> 0, renders |-> 0],
     mismatches |-> 0,
     gateMet |-> FALSE,
     anyQuestion |-> <<>>,
     flagWrites |-> 0]

\* the variables of the engine hold the world w
Holds(w) ==
    /\ FRT = w.FRT
    /\ body = w.body
    /\ dom = w.dom
    /\ state = w.state
    /\ renders = w.renders
    /\ autoTimers = w.autoTimers
    /\ net = w.net
    /\ timers = w.timers
    /\ rpg = w.rpg
    /\ used = w.used
    /\ mismatches = w.mismatches
    /\ gateMet = w.gateMet
    /\ anyQuestion = w.anyQuestion
    /\ flagWrites = w.flagWrites

EngineInit ==
    /\ Holds(Loaded)
    /\ firstRunComplete \in BOOLEAN
    /\ run \in Runs
    /\ setupw = NoSetup
    /\ updater = NoUpdater

Init ==
    /\ EngineInit
    /\ tw = NoTypeWriter
    /\ packet = NoPacket
    /\ names = NoNames
    /\ wizard = NoWizard

----------------------------------------------------------------------------
(* Auto-advance timer handle and listeners *)

CurTimers(T) == {x \in BagToSet(T) : x.cur}

\* clearTimeout(FRT.autoAdvanceTimer): cancels the timeout the handle names, if still pending
clearTimeout(T) == T (-) SetToBag(CurTimers(T))

\* a new timeout id stored in FRT.autoAdvanceTimer: the old one, if pending, is no longer named
Orphan(T) ==
    IF CurTimers(T) = {} THEN T
    ELSE LET c == CHOOSE x \in CurTimers(T) : TRUE
         IN (T (-) SetToBag({c})) (+) SetToBag({[c EXCEPT !.cur = FALSE]})

clearAutoAdvanceTimer(w) ==
    IF w.FRT.autoAdvanceTimer
    THEN [w EXCEPT !.autoTimers = clearTimeout(@), !.FRT.autoAdvanceTimer = FALSE]
    ELSE w

removeAutoAdvanceListeners(w) == [w EXCEPT !.FRT.interactionListeners = FALSE]

cancelAutoAdvanceOnInteraction(w) ==
    removeAutoAdvanceListeners([clearAutoAdvanceTimer(w) EXCEPT !.FRT.autoAdvanceBlocked = TRUE])

setNavEnabled(w) == [w EXCEPT !.dom.btnBackDisabled = (w.FRT.partIndex <= 1)]

\* clearNarrator(): of the narrator's texts the optional line and its idle timeout are followed
clearNarrator(w) == [w EXCEPT !.dom.optional = NoText, !.timers.idle = clearTimeout(@)]

\* history: the pending idle timeouts of a visit the play-head has left for the part (t, i)
Left(T, t, i) ==
    BagOfAll(LAMBDA x : [x EXCEPT !.left = @ \/ <<x.track, x.index>> # <<t, i>>], T)

\* FRT.lastOptionalKind is followed as far as the idle line needs it: "idle", or "other" for
\* null and for every other kind
Kind(kind) == IF kind = "idle" THEN "idle" ELSE "other"

\* showOptional(text, isTransient, kind): a transient line leaves
\* timeouts after which its kind is forgotten (timers.optionalReset counts the pending timeouts
\* after which the kind is not "idle")
showOptional(w, text, isTransient, kind) ==
    IF text = NoText THEN w
    ELSE IF ~isTransient /\ w.FRT.lastOptionalKind = Kind(kind) THEN w
    ELSE [w EXCEPT !.FRT.lastOptionalKind = Kind(kind),
                   !.dom.optional = text,
                   !.timers.optionalReset = IF isTransient THEN @ + 1 ELSE @]

----------------------------------------------------------------------------
(* Hooks *)

\* variant: the wizard's launch is left out
handleNarratorHook_noLaunch(w, hook) ==
    IF hook = "SHOW_MODEL_LOADER_RAIL" THEN
        [w EXCEPT !.body = @ \cup {"frt-allow-right-rail"}]
    ELSE IF hook = "ENABLE_SPLIT_CHAT" THEN
        [w EXCEPT !.body = @ \cup {"frt-split-with-chat"}, !.dom.promptDisabled = FALSE,
                  !.state.tutorialHistory = <<>>]
    ELSE IF hook = "SWAP_PROMPT_PIRATE" THEN
        [w EXCEPT !.state.tutorialSystemPromptId = "pirate",
                  !.state.tutorialSystemPromptText = TUTORIAL_PROMPT_PIRATE]
    ELSE IF hook = "SWAP_PROMPT_DEFAULT" THEN
        [w EXCEPT !.state.tutorialSystemPromptId = "default",
                  !.state.tutorialSystemPromptText = TUTORIAL_PROMPT_DEFAULT]
    ELSE IF hook = "LAUNCH_SYSTEM_PROMPT_RPG" THEN
        w
    ELSE IF hook = "SHOW_FINAL_REVIEW" THEN
        [w EXCEPT !.dom.finalReviewOverlay = TRUE]
    ELSE IF hook = "DISABLE_SPLIT_CHAT" THEN
        [w EXCEPT !.body = @ \ {"frt-split-with-chat"}, !.dom.promptDisabled = TRUE,
                  !.state.tutorialHistory = <<>>]
    ELSE w

handleNarratorHook(w, hook) ==
    IF hook = "SHOW_MODEL_LOADER_RAIL" THEN
        [w EXCEPT !.body = @ \cup {"frt-allow-right-rail"}]
    ELSE IF hook = "ENABLE_SPLIT_CHAT" THEN
        [w EXCEPT !.body = @ \cup {"frt-split-with-chat"}, !.dom.promptDisabled = FALSE,
                  !.state.tutorialHistory = <<>>]
    ELSE IF hook = "SWAP_PROMPT_PIRATE" THEN
        [w EXCEPT !.state.tutorialSystemPromptId = "pirate",
                  !.state.tutorialSystemPromptText = TUTORIAL_PROMPT_PIRATE]
    ELSE IF hook = "SWAP_PROMPT_DEFAULT" THEN
        [w EXCEPT !.state.tutorialSystemPromptId = "default",
                  !.state.tutorialSystemPromptText = TUTORIAL_PROMPT_DEFAULT]
    ELSE IF hook = "LAUNCH_SYSTEM_PROMPT_RPG" THEN
        [w EXCEPT !.timers.rpgLaunch = @ + 1]
    ELSE IF hook = "SHOW_FINAL_REVIEW" THEN
        [w EXCEPT !.dom.finalReviewOverlay = TRUE]
    ELSE IF hook = "DISABLE_SPLIT_CHAT" THEN
        [w EXCEPT !.body = @ \ {"frt-split-with-chat"}, !.dom.promptDisabled = TRUE,
                  !.state.tutorialHistory = <<>>]
    ELSE w

----------------------------------------------------------------------------
(* renderPart *)

\* gate initialisation at the end of a render
GateInit(ra, t, i) ==
    IF requires(t, i).kind # "none"
    THEN [kind |-> requires(t, i).kind, satisfied |-> FALSE, attempts |-> 0,
          baselineQuestion |-> <<>>,
          soft_after |-> IF requires(t, i).soft_after # 0 THEN requires(t, i).soft_after ELSE 999]
    ELSE [ra EXCEPT !.kind = "none", !.satisfied = TRUE, !.attempts = 0,
                    !.baselineQuestion = <<>>]

\* variant: auto-advance on the intro track only
isEligibleForAutoAdvance_introOnly(w, t, i) ==
    /\ "first-run-tutorial" \in w.body
    /\ w.FRT.stage = "script"
    /\ w.FRT.track = "intro"
    /\ ~w.FRT.autoAdvanceBlocked

isEligibleForAutoAdvance(w, t, i) ==
    /\ "first-run-tutorial" \in w.body
    /\ w.FRT.stage = "script"
    /\ ~(w.FRT.track = "model" /\ w.FRT.partIndex = 4)
    /\ "frt-split-with-chat" \notin w.body
    /\ ~(onEnter(t, i) = "ENABLE_SPLIT_CHAT" \/ onEnter(t, i) = "LAUNCH_SYSTEM_PROMPT_RPG")
    /\ ~w.FRT.autoAdvanceBlocked

\* the statements of renderPart after its last step: r is the invocation that resumes
renderPartTail(w, r) ==
    LET w1 == [w EXCEPT !.FRT.isTyping = FALSE, !.FRT.skipRequested = FALSE]
        w2 == setNavEnabled(w1)
        w3 == [w2 EXCEPT !.FRT.requiredAction = GateInit(@, r.track, r.index),
                        !.mismatches = 0]
        w3a == IF w3.FRT.track = "model" /\ w3.FRT.partIndex = 4
               THEN showOptional(w3, Fixed("final-instruction"), FALSE, "final-instruction")
               ELSE w3
        w3b == [w3a EXCEPT !.timers.idle =
                   Orphan(@) (+) SetToBag({[track |-> r.track, index |-> r.index, cur |-> TRUE,
                                             left |-> <<r.track, r.index>> #
                                                      <<w3a.FRT.track, w3a.FRT.partIndex>>]})]
        w4 == IF isEligibleForAutoAdvance(w3b, r.track, r.index)
              THEN [w3b EXCEPT !.autoTimers = Orphan(@) (+) SetToBag({[index |-> r.index, cur |-> TRUE]}),
                              !.FRT.autoAdvanceTimer = TRUE,
                              !.FRT.interactionListeners = TRUE]
              ELSE w3b
    IN  IF r.load THEN [w4 EXCEPT !.dom.btnLoadDisabled = FALSE] ELSE w4

\* variant: the skip flag is not reset when a render starts
renderPart_keepSkip(w, index, load) ==
    IF ~HasPart(w.FRT.track, index) THEN w
    ELSE
    LET t  == w.FRT.track
        r  == [track |-> t, index |-> index, load |-> load]
        w1 == [w EXCEPT !.FRT.partIndex = index, !.FRT.isTyping = TRUE,
                        !.gateMet = FALSE,
                        !.used.renders = @ + 1]
        w2 == [clearNarrator(setNavEnabled(w1)) EXCEPT !.timers.idle = Left(@, t, index)]
        w3 == removeAutoAdvanceListeners(
                  [clearAutoAdvanceTimer(w2) EXCEPT !.FRT.autoAdvanceBlocked = FALSE])
        w4 == handleNarratorHook(w3, onEnter(t, index))
    IN  IF HasSteps(t, index)
        THEN [w4 EXCEPT !.renders = @ (+) SetToBag({r})]
        ELSE renderPartTail(w4, r)

\* renderPart(index) up to its first await; load: the caller is api.loadModel, which awaits it
renderPart(w, index, load) ==
    IF ~HasPart(w.FRT.track, index) THEN w
    ELSE
    LET t  == w.FRT.track
        r  == [track |-> t, index |-> index, load |-> load]
        w1 == [w EXCEPT !.FRT.partIndex = index, !.FRT.isTyping = TRUE,
                        !.FRT.skipRequested = FALSE, !.gateMet = FALSE,
                        !.used.renders = @ + 1]
        w2 == [clearNarrator(setNavEnabled(w1)) EXCEPT !.timers.idle = Left(@, t, index)]
        w3 == removeAutoAdvanceListeners(
                  [clearAutoAdvanceTimer(w2) EXCEPT !.FRT.autoAdvanceBlocked = FALSE])
        w4 == handleNarratorHook(w3, onEnter(t, index))
    IN  IF HasSteps(t, index)
        THEN [w4 EXCEPT !.renders = @ (+) SetToBag({r})]
        ELSE renderPartTail(w4, r)

\* the last step of a suspended render completes and its tail runs
RenderEnd ==
    \E r \in BagToSet(renders) :
        Assign(renderPartTail([World EXCEPT !.renders = @ (-) SetToBag({r})], r))

----------------------------------------------------------------------------
(* Start-up *)

enterFirstRunStep1(w) ==
    LET w1 == [w EXCEPT !.FRT.stage = "boot",
                        !.body = @ \cup {"first-run-tutorial"},
                        !.dom.overlayDisplayed = TRUE]
        w2 == [setNavEnabled(w1) EXCEPT !.dom.btnBackDisabled = TRUE, !.dom.promptDisabled = TRUE]
        w3 == [w2 EXCEPT !.FRT.stage = "script"]
    IN  renderPart(w3, 1, FALSE)

startApp ==
    /\ FRT.stage = "none"
    /\ IF ~firstRunComplete
       THEN Assign(enterFirstRunStep1(World))
       ELSE Assign(World)

----------------------------------------------------------------------------
(* endTutorial *)

\* variant: the tear-down without the write of the first-run flag
endTutorial_noFlag(w) ==
    [w EXCEPT !.body = {},
              !.dom.overlayDisplayed = FALSE,
              !.dom.promptDisabled = FALSE,
              !.state.tutorialHistory = <<>>]

markFirstRunComplete(w) ==
    [w EXCEPT !.firstRunComplete = TRUE, !.flagWrites = @ + 1]

endTutorial(w) ==
    [markFirstRunComplete(w) EXCEPT
              !.body = {},
              !.dom.overlayDisplayed = FALSE,
              !.dom.promptDisabled = FALSE,
              !.state.tutorialHistory = <<>>]

----------------------------------------------------------------------------
(* Navigation handlers *)

GateBlocks(w) == w.FRT.requiredAction.kind # "none" /\ ~w.FRT.requiredAction.satisfied

\* variant: the deterrent line chosen by the count after the click
gateRefuse_countAfter(w) ==
    IF w.FRT.requiredAction.kind = "final_review_confirm"
    THEN showOptional(w, Fixed("gate-final-review"), TRUE, "gate-final-review")
    ELSE LET lineIndex == Min(w.FRT.requiredAction.attempts + 1, Len(antiSkipLines) - 1)
             w1 == [showOptional(w, antiSkipLines[lineIndex + 1], TRUE, "gate-block")
                        EXCEPT !.FRT.requiredAction.attempts = @ + 1]
         IN  IF w1.FRT.requiredAction.kind = "chat_repeat" /\ w1.FRT.requiredAction.attempts <= 2
             THEN [w1 EXCEPT !.timers.optionalReset = @ + 2]
             ELSE w1

\* the refusal of a forward click by an unsatisfied gate
gateRefuse(w) ==
    IF w.FRT.requiredAction.kind = "final_review_confirm"
    THEN showOptional(w, Fixed("gate-final-review"), TRUE, "gate-final-review")
    ELSE LET lineIndex == Min(w.FRT.requiredAction.attempts, Len(antiSkipLines) - 1)
             w1 == [showOptional(w, antiSkipLines[lineIndex + 1], TRUE, "gate-block")
                        EXCEPT !.FRT.requiredAction.attempts = @ + 1]
         IN  \* the reminder, a transient line shown by a timeout: two more pending timeouts
             IF w1.FRT.requiredAction.kind = "chat_repeat" /\ w1.FRT.requiredAction.attempts <= 2
             THEN [w1 EXCEPT !.timers.optionalReset = @ + 2]
             ELSE w1

\* the forward click while a part is typed
earlyClick(w) ==
    LET w1 == IF w.FRT.stage = "script" /\ HasPart(w.FRT.track, w.FRT.partIndex)
                 /\ earlyClickLine(w.FRT.track, w.FRT.partIndex)
              THEN showOptional(w, Fixed("early"), TRUE, "early")
              ELSE w
    IN  [w1 EXCEPT !.FRT.skipRequested = TRUE]

\* variant: the next track entered without rendering its first part
trackTransition_noRender(w) ==
    IF w.FRT.track = "intro" THEN [w EXCEPT !.FRT.track = "model", !.FRT.partIndex = 0]
    ELSE IF w.FRT.track = "system_prompt" THEN [w EXCEPT !.FRT.track = "context", !.FRT.partIndex = 0]
    ELSE IF w.FRT.track = "context" THEN [w EXCEPT !.FRT.track = "memory", !.FRT.partIndex = 0]
    ELSE IF w.FRT.track = "memory" THEN endTutorial(w)
    ELSE w

\* the forward click on the last part of a track
trackTransition(w) ==
    IF w.FRT.track = "intro" THEN
        renderPart([w EXCEPT !.FRT.track = "model", !.FRT.partIndex = 0], 1, FALSE)
    ELSE IF w.FRT.track = "system_prompt" THEN
        renderPart([w EXCEPT !.FRT.track = "context", !.FRT.partIndex = 0], 1, FALSE)
    ELSE IF w.FRT.track = "context" THEN
        renderPart([w EXCEPT !.FRT.track = "memory", !.FRT.partIndex = 0], 1, FALSE)
    ELSE IF w.FRT.track = "memory" THEN
        endTutorial(w)
    ELSE showOptional([w EXCEPT !.body = @ \cup {"frt-allow-right-rail"}], Fixed("end-model"), TRUE,
                      "end-model")

\* variant: no dead end, the model track's last part advancing like the others
btnNextClick_noDeadEnd(w) ==
    LET w0 == removeAutoAdvanceListeners(clearAutoAdvanceTimer(w))
        F  == w0.FRT
    IN
    IF F.stage = "boot" THEN
        renderPart([w0 EXCEPT !.FRT.stage = "script"], 1, FALSE)
    ELSE IF F.isTyping THEN
        earlyClick(w0)
    ELSE IF GateBlocks(w0) THEN
        gateRefuse(w0)
    ELSE IF F.partIndex < getMaxPart(F.track) THEN
        renderPart(w0, F.partIndex + 1, FALSE)
    ELSE IF F.track = "model" THEN
        renderPart([w0 EXCEPT !.FRT.track = "system_prompt", !.FRT.partIndex = 0], 1, FALSE)
    ELSE trackTransition(w0)

btnNextClick(w) ==
    LET w0 == removeAutoAdvanceListeners(clearAutoAdvanceTimer(w))
        F  == w0.FRT
    IN
    IF F.stage = "boot" THEN
        renderPart([w0 EXCEPT !.FRT.stage = "script"], 1, FALSE)
    ELSE IF F.isTyping THEN
        earlyClick(w0)
    ELSE IF GateBlocks(w0) THEN
        gateRefuse(w0)
    ELSE IF F.track = "model" /\ F.partIndex = 4 THEN
        w0
    ELSE IF F.partIndex < getMaxPart(F.track) THEN
        renderPart(w0, F.partIndex + 1, FALSE)
    ELSE trackTransition(w0)

\* variant: Back refused by an unsatisfied gate, as Next is
btnBackClick_gated(w) ==
    LET w0 == removeAutoAdvanceListeners(clearAutoAdvanceTimer(w))
    IN
    IF w0.FRT.isTyping THEN [w0 EXCEPT !.FRT.skipRequested = TRUE]
    ELSE IF GateBlocks(w0) THEN w0
    ELSE IF w0.FRT.partIndex > 1 THEN renderPart(w0, w0.FRT.partIndex - 1, FALSE)
    ELSE w0

\* variant: Back without the typing check
btnBackClick_noTypingCheck(w) ==
    LET w0 == removeAutoAdvanceListeners(clearAutoAdvanceTimer(w))
    IN
    IF w0.FRT.partIndex > 1 THEN renderPart(w0, w0.FRT.partIndex - 1, FALSE)
    ELSE w0

btnBackClick(w) ==
    LET w0 == removeAutoAdvanceListeners(clearAutoAdvanceTimer(w))
    IN
    IF w0.FRT.isTyping THEN [w0 EXCEPT !.FRT.skipRequested = TRUE]
    ELSE IF w0.FRT.partIndex > 1 THEN renderPart(w0, w0.FRT.partIndex - 1, FALSE)
    ELSE w0

\* the click does not count a refused attempt beyond the bound
WithinAttempts(w) ==
    LET a == btnNextClick(w).FRT.requiredAction.attempts
    IN  a <= w.FRT.requiredAction.attempts \/ a <= MaxAttempts

\* the user can click the navigation only while the tutorial overlay is displayed
NextClick ==
    /\ FRT.stage # "none"
    /\ dom.overlayDisplayed
    /\ WithinAttempts(World)
    /\ Assign(btnNextClick(World))

BackClick ==
    /\ FRT.stage # "none"
    /\ dom.overlayDisplayed
    /\ ~dom.btnBackDisabled
    /\ Assign([btnBackClick(World) EXCEPT !.used.backs = @ + 1])

\* the auto-advance timeout t fires: the callback armed by renderPart
autoAdvanceCallback(w, t) ==
    LET w1 == [w EXCEPT !.autoTimers = @ (-) SetToBag({t})]
    IN  IF w1.FRT.partIndex = t.index /\ ~w1.FRT.isTyping THEN btnNextClick(w1) ELSE w1

AutoAdvanceFire ==
    \E t \in BagToSet(autoTimers) :
        /\ (FRT.partIndex = t.index /\ ~FRT.isTyping) => WithinAttempts(World)
        /\ Assign(autoAdvanceCallback(World, t))

\* the idle timeout t fires: the callback set at the end of renderPart
idleCallback(w, t) ==
    LET w0 == [w EXCEPT !.timers.idle = @ (-) SetToBag({t})]
        w1 == [w0 EXCEPT !.used.idle = @ + 1]
    IN  IF ~w1.FRT.isTyping /\ w1.FRT.partIndex = t.index /\ idleLine(t.track, t.index) # <<>>
        THEN showOptional(w1, <<"idleLine", t.track, t.index>>, FALSE, "idle")
        ELSE w1

IdleFire ==
    \E t \in BagToSet(timers.idle) : Assign(idleCallback(World, t))

\* a timeout of a transient line has run: the kind is forgotten, or is that of the reminder; the
\* line stays (the first timeout fades it), is removed (the second one), or is the reminder
OptionalResetTimer ==
    /\ timers.optionalReset > 0
    /\ \E text \in {dom.optional, NoText, Fixed("gate-repeat-reminder")} :
           Assign([World EXCEPT !.timers.optionalReset = @ - 1, !.FRT.lastOptionalKind = "other",
                               !.dom.optional = text])

\* a character key pressed (kind "typing"), or a pointer pressed (kind "click"), outside the
\* navigation and outside the chat: the listeners of the document
attemptLine(w, kind) ==
    IF "first-run-tutorial" \notin w.body \/ w.FRT.stage = "none" THEN w
    ELSE IF w.FRT.stage = "boot" THEN showOptional(w, Fixed(kind), FALSE, kind)
    ELSE IF /\ HasPart(w.FRT.track, w.FRT.partIndex)
            /\ IF kind = "typing" THEN typingAttemptLine(w.FRT.track, w.FRT.partIndex)
                                  ELSE clickAttemptLine(w.FRT.track, w.FRT.partIndex)
    THEN showOptional(w, Fixed(kind), FALSE, kind)
    ELSE w

DocumentKeydown ==
    /\ "first-run-tutorial" \in body
    /\ FRT.stage # "none"
    /\ Assign(attemptLine(World, "typing"))

DocumentPointerdown ==
    /\ "first-run-tutorial" \in body
    /\ FRT.stage # "none"
    /\ Assign(attemptLine(World, "click"))

\* wheel, keydown, pointerdown, click or touchstart on the overlay while the listeners are attached
Interaction ==
    /\ FRT.interactionListeners
    /\ dom.overlayDisplayed
    /\ Assign(cancelAutoAdvanceOnInteraction(World))

----------------------------------------------------------------------------
(* api.loadModel *)

\* the loader is behind the right rail, which the tutorial keeps hidden until its hook
LoaderReachable == {"first-run-tutorial", "frt-allow-right-rail"} \subseteq body

LoadModelClick ==
    /\ LoaderReachable
    /\ ~dom.btnLoadDisabled
    /\ Assign([World EXCEPT !.dom.btnLoadDisabled = TRUE, !.net.load = TRUE,
                            !.used.loads = @ + 1])

\* the request succeeded: the statements after the fetch
loadModelOk(w) ==
    LET w1 == [w EXCEPT !.net.load = FALSE, !.dom.promptDisabled = FALSE]
    IN  IF "first-run-tutorial" \in w1.body
        THEN renderPart([w1 EXCEPT !.FRT.track = "system_prompt", !.FRT.partIndex = 1], 1, TRUE)
        ELSE [w1 EXCEPT !.dom.btnLoadDisabled = FALSE]

\* the request failed: catch and finally
loadModelFail(w) ==
    [w EXCEPT !.net.load = FALSE, !.dom.promptDisabled = TRUE, !.dom.btnLoadDisabled = FALSE]

LoadModelOk ==
    /\ net.load
    /\ Assign(loadModelOk(World))

LoadModelFail ==
    /\ net.load
    /\ Assign(loadModelFail(World))

----------------------------------------------------------------------------
(* api.chat *)

\* a tutorial chat is one sent while both classes are on the body
isTutorialChat(w) == {"first-run-tutorial", "frt-split-with-chat"} \subseteq w.body

\* variant: api.chat() without the test of state.isGenerating
chatSend_noGuard(w, value) ==
    LET promptText == trim(value)
    IN  IF promptText = <<>> THEN w
        ELSE [w EXCEPT !.state.isGenerating = TRUE,
                       !.state.tutorialHistory =
                           IF isTutorialChat(w) THEN Append(@, "user") ELSE @,
                       !.net.chat = [phase |-> "request", msg |-> promptText,
                                     tutorial |-> isTutorialChat(w)]]

\* api.chat() up to its fetch
chatSend(w, value) ==
    LET promptText == trim(value)
    IN  IF promptText = <<>> \/ w.state.isGenerating THEN w
        ELSE [w EXCEPT !.state.isGenerating = TRUE,
                       !.state.tutorialHistory =
                           IF isTutorialChat(w) THEN Append(@, "user") ELSE @,
                       !.net.chat = [phase |-> "request", msg |-> promptText,
                                     tutorial |-> isTutorialChat(w)]]

\* history: the gate that was just satisfied is the one the part under the play-head declares
OwnGate(w) == requires(w.FRT.track, w.FRT.partIndex).kind = w.FRT.requiredAction.kind

\* the required-action check made when the stream of a tutorial chat has ended
chatGateCheck(w, promptText) ==
    LET ra == w.FRT.requiredAction
        userMsg == toLowerCase(trim(promptText))
        baseline == toLowerCase(trim(ra.baselineQuestion))
    IN
    IF ra.kind = "none" \/ ra.satisfied THEN w
    ELSE IF ra.kind = "chat_any" THEN
        [w EXCEPT !.FRT.requiredAction.satisfied = TRUE,
                  !.FRT.requiredAction.baselineQuestion = trim(promptText),
                  !.gateMet = @ \/ OwnGate(w), !.anyQuestion = trim(promptText)]
    ELSE IF ra.kind = "chat_repeat" THEN
        IF userMsg = baseline
        THEN [w EXCEPT !.FRT.requiredAction.satisfied = TRUE, !.gateMet = @ \/ OwnGate(w)]
        ELSE IF ra.attempts + 1 >= ra.soft_after
             THEN showOptional([w EXCEPT !.FRT.requiredAction.attempts = @ + 1,
                                         !.FRT.requiredAction.satisfied = TRUE,
                                         !.gateMet = @ \/ OwnGate(w), !.mismatches = @ + 1],
                               Fixed("gate-soft-pass"), TRUE, "gate-soft-pass")
             ELSE [w EXCEPT !.FRT.requiredAction.attempts = @ + 1, !.mismatches = @ + 1]
    ELSE w

\* a response with a body arrived and its stream was read to the end (the status is not looked at)
chatStreamEnd(w) ==
    LET w1 == [w EXCEPT !.net.chat.phase = "display"]
    IN  IF w.net.chat.tutorial
        THEN chatGateCheck([w1 EXCEPT !.state.tutorialHistory = Append(@, "assistant")],
                           w.net.chat.msg)
        ELSE w1

\* fetch rejected, or the response has no body, or reading it failed: the catch block
chatFail(w) == [w EXCEPT !.net.chat = NoChat, !.state.isGenerating = FALSE]

\* the display interval has shown the whole response
chatDisplayed(w) == [w EXCEPT !.net.chat = NoChat, !.state.isGenerating = FALSE]

\* the tutorial locks the chat input until split chat mode unlocks it
ChatReachable ==
    /\ {"first-run-tutorial", "frt-split-with-chat"} \subseteq body
    /\ ~dom.promptDisabled

ChatSend ==
    /\ ChatReachable
    /\ \E value \in PromptValues :
          Assign(chatSend(World, value))

ChatStreamEnd ==
    /\ net.chat.phase = "request"
    /\ Assign(chatStreamEnd(World))

\* the backend answers with an error status and a body: fetch resolves, res.ok is not read,
\* the body is read to its end as a stream without events, and the code goes on as for a success
ChatErrorResponse ==
    /\ net.chat.phase = "request"
    /\ Assign(chatStreamEnd(World))

ChatFail ==
    /\ net.chat.phase = "request"
    /\ Assign(chatFail(World))

ChatDisplayed ==
    /\ net.chat.phase = "display"
    /\ Assign(chatDisplayed(World))

----------------------------------------------------------------------------
(* Final review: btnFinalReviewConfirm *)

\* the click handler of LOOKS GOOD up to its await: the control is disabled, the staged
\* data are read and the commit request is sent
finalReviewConfirmClick(w) ==
    [w EXCEPT !.dom.btnFinalReviewConfirmDisabled = TRUE, !.net.commit = @ + 1]

FinalReviewConfirmClick ==
    /\ dom.finalReviewOverlay
    /\ ~dom.btnFinalReviewConfirmDisabled
    /\ Assign(finalReviewConfirmClick(World))

\* variant: the success path without the timeout that ends the tutorial
commitOk_noEnd(w) ==
    [w EXCEPT !.net.commit = @ - 1,
              !.FRT.requiredAction.satisfied = TRUE,
              !.FRT.requiredAction.kind = "none",
              !.gateMet = @ \/ OwnGate(w),
              !.dom.finalReviewOverlay = FALSE]

commitOk(w) ==
    [w EXCEPT !.net.commit = @ - 1,
              !.FRT.requiredAction.satisfied = TRUE,
              !.FRT.requiredAction.kind = "none",
              !.gateMet = @ \/ OwnGate(w),
              !.dom.finalReviewOverlay = FALSE,
              !.timers.endTutorial = TRUE]

\* variant: the failure path without the re-enabling of the control
commitFail_keepDisabled(w) ==
    [w EXCEPT !.net.commit = @ - 1,
              !.dom.finalReviewError = TRUE,
              !.timers.errorHide = @ + 1]

\* the catch block: the control is enabled again, the inline error is shown for 3 s
commitFail(w) ==
    [w EXCEPT !.net.commit = @ - 1,
              !.dom.btnFinalReviewConfirmDisabled = FALSE,
              !.dom.finalReviewError = TRUE,
              !.timers.errorHide = @ + 1]

CommitOk ==
    /\ net.commit > 0
    /\ Assign(commitOk(World))

CommitFail ==
    /\ net.commit > 0
    /\ Assign(commitFail(World))

\* the timeout of the catch block hides the inline error
ErrorHideTimer ==
    /\ timers.errorHide > 0
    /\ Assign([World EXCEPT !.timers.errorHide = @ - 1, !.dom.finalReviewError = FALSE])

EndTutorialTimer ==
    /\ timers.endTutorial
    /\ Assign(endTutorial([World EXCEPT !.timers.endTutorial = FALSE]))

----------------------------------------------------------------------------
(* Questionnaire wizard: launch, submission, review, commit and resume *)

\* the launch choreography's timeouts have run: RPG.show()
RpgShow ==
    /\ timers.rpgLaunch > 0
    /\ Assign([World EXCEPT !.timers.rpgLaunch = @ - 1, !.rpg.overlay = TRUE])

\* RPG.submit(), reached from goNext on the last question
RpgSubmit ==
    /\ rpg.overlay
    /\ Assign([World EXCEPT !.timers.rpgLoading = @ + 1])

\* the loading-stage timeout: hideLoading, hide, showReview
RpgLoadingDone ==
    /\ timers.rpgLoading > 0
    /\ Assign([World EXCEPT !.timers.rpgLoading = @ - 1, !.rpg.overlay = FALSE,
                            !.rpg.review = TRUE])

\* the text of the review screen's editor when the tutorial's user commits it
RpgPrompts == {<<"a">>}

\* the use-prompt button with a non-empty editor: RPG.saveSystemPrompt(prompt) up to its fetch
rpgSaveSystemPrompt(w, prompt) ==
    [w EXCEPT !.rpg.saveBtnDisabled = TRUE, !.rpg.prompt = prompt, !.net.save = TRUE]

RpgUsePromptClick ==
    /\ rpg.review
    /\ ~rpg.saveBtnDisabled
    /\ \E v \in RpgPrompts : Assign(rpgSaveSystemPrompt(World, trim(v)))

\* variant: a successful save that leaves the tutorial's prompt as it was
rpgSaveOk_keepPrompt(w) ==
    [w EXCEPT !.net.save = FALSE,
              !.rpg.prompt = <<>>,
              !.state.rpg_tier_a = TRUE,
              !.timers.rpgResume = TRUE]

\* the request succeeded: the second then-callback
rpgSaveOk(w) ==
    [w EXCEPT !.net.save = FALSE,
              !.rpg.prompt = <<>>,
              !.state.tutorialSystemPromptId = "custom",
              !.state.tutorialSystemPromptText = w.rpg.prompt,
              !.state.rpg_tier_a = TRUE,
              !.timers.rpgResume = TRUE]

RpgSaveOk ==
    /\ net.save
    /\ Assign(rpgSaveOk(World))

RpgSaveFail ==
    /\ net.save
    /\ Assign([World EXCEPT !.net.save = FALSE, !.rpg.prompt = <<>>,
                            !.rpg.saveBtnDisabled = FALSE])

\* the timeout set on a successful save: hide the wizard and resume the narrator
rpgResume(w) ==
    LET w1 == [w EXCEPT !.timers.rpgResume = FALSE, !.rpg.review = FALSE, !.rpg.overlay = FALSE]
    IN  IF "first-run-tutorial" \in w1.body
        THEN renderPart([w1 EXCEPT !.FRT.track = "system_prompt", !.FRT.partIndex = 11], 11, FALSE)
        ELSE w1

RpgResume ==
    /\ timers.rpgResume
    /\ Assign(rpgResume(World))

----------------------------------------------------------------------------

Next ==
    \/ startApp
    \/ RenderEnd
    \/ NextClick
    \/ BackClick
    \/ AutoAdvanceFire
    \/ Interaction
    \/ LoadModelClick
    \/ LoadModelOk
    \/ LoadModelFail
    \/ ChatSend
    \/ ChatStreamEnd
    \/ ChatErrorResponse
    \/ ChatFail
    \/ ChatDisplayed
    \/ FinalReviewConfirmClick
    \/ CommitOk
    \/ CommitFail
    \/ ErrorHideTimer
    \/ EndTutorialTimer
    \/ RpgShow
    \/ RpgSubmit
    \/ RpgLoadingDone
    \/ RpgUsePromptClick
    \/ RpgSaveOk
    \/ RpgSaveFail
    \/ RpgResume
    \/ IdleFire
    \/ OptionalResetTimer
    \/ DocumentKeydown
    \/ DocumentPointerdown

Spec == Init /\ [][Next]_vars

\* a pending timeout that ends the tutorial does fire
SpecTimers == Spec /\ WF_vars(EndTutorialTimer)

\* the engine's variables at rest while a helper is studied on its own
EngineAtRest == EngineInit /\ firstRunComplete /\ run = "reload"

----------------------------------------------------------------------------
(* A gated part on its own: the forward clicks that its unsatisfied gate refuses *)

GatedParts == {<<"system_prompt", 4>>, <<"system_prompt", 7>>, <<"memory", 5>>}

\* the first run when the render of the gated part (t, i) has ended, its gate armed, the parts
\* before it passed one by one
AtGate(t, i) ==
    LET chat == t = "system_prompt"
        w == [Loaded EXCEPT !.FRT.stage = "script", !.FRT.track = t, !.FRT.partIndex = i,
                            !.FRT.isTyping = TRUE,
                            !.body = {"first-run-tutorial", "frt-allow-right-rail"}
                                     \cup IF chat THEN {"frt-split-with-chat"} ELSE {},
                            !.dom.overlayDisplayed = TRUE,
                            !.dom.promptDisabled = ~chat,
                            !.dom.finalReviewOverlay = ~chat,
                            !.used.loads = 1]
        v == IF chat
             THEN IF i = 7 THEN handleNarratorHook(w, "SWAP_PROMPT_PIRATE") ELSE w
             ELSE \* the wizard's prompt was saved on the way, on system_prompt part 10
                  [rpgSaveOk(rpgSaveSystemPrompt(w, <<"a">>)) EXCEPT !.timers.rpgResume = FALSE]
    IN  renderPartTail(v, [track |-> t, index |-> i, load |-> FALSE])

InitGate ==
    /\ \E p \in GatedParts : Holds(AtGate(p[1], p[2]))
    /\ firstRunComplete = FALSE
    /\ run = "idle"
    /\ setupw = NoSetup
    /\ updater = NoUpdater
    /\ tw = NoTypeWriter
    /\ packet = NoPacket
    /\ names = NoNames
    /\ wizard = NoWizard

\* the forward click, at most MaxRefusals of them counted by the gate
GateNextClick ==
    /\ FRT.stage # "none"
    /\ dom.overlayDisplayed
    /\ btnNextClick(World).FRT.requiredAction.attempts <= MaxRefusals
    /\ Assign(btnNextClick(World))

NextGate == GateNextClick \/ AutoAdvanceFire \/ OptionalResetTimer \/ IdleFire

SpecGate == InitGate /\ [][NextGate]_vars

----------------------------------------------------------------------------
(* The chat of a gated part on its own: submissions and the outcomes of their requests *)

InitChat ==
    /\ \E i \in {4, 7} : Holds(AtGate("system_prompt", i))
    /\ firstRunComplete = FALSE
    /\ run = "chat"
    /\ setupw = NoSetup
    /\ updater = NoUpdater
    /\ tw = NoTypeWriter
    /\ packet = NoPacket
    /\ names = NoNames
    /\ wizard = NoWizard

NextChat ==
    \/ ChatSend
    \/ ChatStreamEnd
    \/ ChatErrorResponse
    \/ ChatFail
    \/ ChatDisplayed

SpecChat == InitChat /\ [][NextChat]_vars

----------------------------------------------------------------------------
(* A first run without user input before the loader: only the timers and the renders act,
   and the model may be loaded once the rail gives access to the loader *)

InitAuto ==
    /\ Init
    /\ ~firstRunComplete
    /\ run = "idle"

NextAuto ==
    \/ startApp
    \/ RenderEnd
    \/ AutoAdvanceFire
    \/ IdleFire
    \/ LoadModelClick
    \/ LoadModelOk
    \/ LoadModelFail

\* the application starts, the steps of a render come to their end, a pending timeout fires
SpecAuto ==
    /\ InitAuto
    /\ [][NextAuto]_vars
    /\ WF_vars(startApp)
    /\ WF_vars(RenderEnd)
    /\ WF_vars(AutoAdvanceFire)

----------------------------------------------------------------------------
(* The setup wizard on its own *)

InitSetup ==
    EngineAtRest /\ tw = NoTypeWriter /\ packet = NoPacket /\ names = NoNames /\ wizard = NoWizard

NextSetup ==
    \/ RunWizard
    \/ SetupFirstRefresh
    \/ SetupFirstRefreshFail
    \/ SetupDownloadClick
    \/ SetupDownloadOk
    \/ SetupDownloadFail
    \/ SetupServerDownload
    \/ SetupPollTick
    \/ SetupRescanClick
    \/ SetupSkipClick
    \/ SetupContinueClick
    \/ SetupWatcherTick

SpecSetup == InitSetup /\ [][NextSetup]_vars

----------------------------------------------------------------------------
(* The updater on its own, after the tutorial *)

InitUpdater ==
    EngineAtRest /\ tw = NoTypeWriter /\ packet = NoPacket /\ names = NoNames /\ wizard = NoWizard

NextUpdater ==
    \/ EnsureSidebarButton
    \/ UpdaterOpenClick
    \/ UpdaterRefreshClick
    \/ UpdaterStatusOk
    \/ UpdaterStatusFail
    \/ UpdaterApplyClick
    \/ UpdaterApplyOk
    \/ UpdaterApplyFail
    \/ UpdaterCloseClick

SpecUpdater == InitUpdater /\ [][NextUpdater]_vars

----------------------------------------------------------------------------
(* Context part 3 on its own: any timing of its steps, of the frames and of the request *)

InitPacket ==
    EngineAtRest /\ tw = NoTypeWriter /\ packet = NoPacket /\ names = NoNames /\ wizard = NoWizard

NextPacket ==
    \/ PacketStep
    \/ PacketFrame
    \/ PacketFetchOk
    \/ PacketFetchError
    \/ PacketFetchTimeout
    \/ PacketLeave

SpecPacket == InitPacket /\ [][NextPacket]_vars

----------------------------------------------------------------------------
(* The strings of one track handed to replaceNamePlaceholder, in any order and number *)

InitNames ==
    /\ EngineAtRest
    /\ tw = NoTypeWriter
    /\ packet = NoPacket
    /\ wizard = NoWizard
    /\ \E t \in TrackNames, n \in {"", "Rishi"}, f \in BOOLEAN :
           names = [NoNames EXCEPT !.track = t, !.name = n, !.firstRun = f]

NextNames == ProcessString

SpecNames == InitNames /\ [][NextNames]_vars

----------------------------------------------------------------------------
(* The wizard on its own: any answers, clicks and key presses *)

InitWizard ==
    /\ EngineAtRest
    /\ tw = NoTypeWriter
    /\ packet = NoPacket
    /\ names = NoNames
    /\ wizard = NoWizard

\* the questions, up to the presentation of the review screen
NextWizard ==
    \/ WizardShow
    \/ WizardType
    \/ WizardSelect
    \/ WizardToggle
    \/ WizardIdentity
    \/ WizardNextClick
    \/ WizardEnterKey
    \/ WizardBackClick
    \/ WizardLoadingDone

SpecWizard == InitWizard /\ [][NextWizard]_vars

----------------------------------------------------------------------------
(* generateSystemPrompt on its own: any answer set, submitted from the last question *)

\* answer sets, the capabilities being any array of choices
PromptAnswers ==
    {[name |-> n, preferred_name |-> trim(n), domain |-> d, style |-> y, capabilities |-> c,
      identity |-> <<>>, custom |-> u] :
        n \in {<<>>, <<"a">>}, d \in {"", "first"}, y \in {"", "second"},
        c \in UNION {[1..k -> MultiChoices] : k \in 0..MaxCaps}, u \in TextValues}

InitPrompt ==
    /\ EngineAtRest
    /\ tw = NoTypeWriter
    /\ packet = NoPacket
    /\ names = NoNames
    /\ \E a \in PromptAnswers :
           wizard = wizardRender([NoWizard EXCEPT !.hidden = FALSE, !.answers = a,
                                                  !.currentIndex = LastQuestion])

NextPrompt == WizardNextClick

SpecPrompt == InitPrompt /\ [][NextPrompt]_vars

----------------------------------------------------------------------------
(* The review screen on its own: the last question answered, then any clicks and edits *)

ReviewAnswers ==
    {a \in PromptAnswers :
        /\ a.name = <<"a">> /\ a.domain = "first" /\ a.style = "second"
        /\ a.capabilities \in {<<"A">>, <<"c", "A", "d">>}
        /\ a.custom \in {<<>>, <<"a">>}}

InitReview ==
    /\ EngineAtRest
    /\ tw = NoTypeWriter
    /\ packet = NoPacket
    /\ names = NoNames
    /\ \E a \in ReviewAnswers :
           wizard = wizardRender([NoWizard EXCEPT !.hidden = FALSE, !.answers = a,
                                                  !.currentIndex = LastQuestion])

NextReview ==
    \/ WizardNextClick
    \/ WizardEnterKey
    \/ WizardBackClick
    \/ WizardLoadingDone
    \/ ReviewInput
    \/ WizardStartOverOk
    \/ WizardBackToQuestions
    \/ WizardUsePromptClick
    \/ WizardSaveOk
    \/ WizardSaveFail
    \/ WizardResume

SpecReview == InitReview /\ [][NextReview]_vars

----------------------------------------------------------------------------
(* The typewriter on its own: any string, skip requested at any moment *)

InitTypeWriter ==
    /\ EngineAtRest
    /\ packet = NoPacket
    /\ names = NoNames
    /\ wizard = NoWizard
    /\ \E text \in Texts, skip \in BOOLEAN :
           tw = [NoTypeWriter EXCEPT !.text = text, !.skipRequested = skip]

NextTypeWriter == TypeWriterCall \/ TypeCharTimeout \/ SkipRequest \/ SkipReset

\* a pending timeout fires; the caller does call
SpecTypeWriter ==
    /\ InitTypeWriter
    /\ [][NextTypeWriter]_vars
    /\ WF_vars(TypeWriterCall)
    /\ WF_vars(TypeCharTimeout)

----------------------------------------------------------------------------
(* Properties *)

playHead == <<FRT.track, FRT.partIndex>>

\* the auto-advance timeout fires and its guard lets the forward click through
AutoAdvanceClick ==
    \E t \in BagToSet(autoTimers) :
        /\ FRT.partIndex = t.index
        /\ ~FRT.isTyping
        /\ WithinAttempts(World)
        /\ Assign(autoAdvanceCallback(World, t))

\* a forward action that reaches the handler of Next
ForwardAction == NextClick \/ AutoAdvanceClick

\* no typing in progress and no gate pending
ReadyForward == ~FRT.isTyping /\ ~GateBlocks(World)

GatedPart == requires(FRT.track, FRT.partIndex).kind # "none"

AtDeadEnd == FRT.track = "model" /\ FRT.partIndex = 4

TrackOrder == <<"intro", "model", "system_prompt", "context", "memory">>

TrackPos(t) == CHOOSE k \in DOMAIN TrackOrder : TrackOrder[k] = t

LastPart(t) == Len(scripts[t])

AtLastPart == playHead = <<"memory", LastPart("memory")>>

\* the part after part i of track t in the order of the script
SuccPart(t, i) ==
    IF i < LastPart(t) THEN <<t, i + 1>>
    ELSE IF TrackPos(t) < Len(TrackOrder) THEN <<TrackOrder[TrackPos(t) + 1], 1>>
    ELSE <<t, i>>

RECURSIVE PartsBefore(_)
PartsBefore(k) == IF k = 1 THEN 0 ELSE PartsBefore(k - 1) + LastPart(TrackOrder[k - 1])

\* the position of a part in the walk from intro part 1 to the last part of memory
Rank(t, i) == PartsBefore(TrackPos(t)) + i

TornDown == firstRunComplete /\ body = {} /\ ~dom.overlayDisplayed

Norm(s) == toLowerCase(trim(s))

\* C1: while the play-head is on a part that declares a required action which has not been
\* performed since the part was entered, no click on Next and no firing of the auto-advance
\* timer changes the track or the part index.
C1_GateHoldsPlayHead ==
    [][(GatedPart /\ ~gateMet /\ (NextClick \/ AutoAdvanceFire)) => playHead' = playHead]_vars

\* C2: at the chat_repeat gate of system_prompt part 7, a completed submission equal, after
\* trimming and lower-casing, to the message that satisfied the chat_any gate satisfies the gate
\* by the match: no mismatch is counted.
C2_RepeatMatchSatisfies ==
    [][(/\ ChatStreamEnd
        /\ net.chat.tutorial
        /\ playHead = <<"system_prompt", 7>>
        /\ FRT.requiredAction.kind = "chat_repeat"
        /\ ~FRT.requiredAction.satisfied
        /\ anyQuestion # <<>>
        /\ Norm(net.chat.msg) = Norm(anyQuestion))
       => (/\ FRT'.requiredAction.satisfied
           /\ FRT'.requiredAction.attempts = FRT.requiredAction.attempts
           /\ mismatches' = mismatches)]_vars

\* C3: a submission the chat_repeat gate counts as a mismatch satisfies the gate exactly when
\* it is the second one (soft_after = 2) since the gate was armed, however many forward clicks
\* the gate refused in between.
C3_SecondMismatchSatisfies ==
    [][(/\ ChatStreamEnd
        /\ FRT.requiredAction.kind = "chat_repeat"
        /\ ~FRT.requiredAction.satisfied
        /\ mismatches' = mismatches + 1)
       => (FRT'.requiredAction.satisfied
             <=> mismatches' = requires("system_prompt", 7).soft_after)]_vars

\* C4: at most one render of a part is in progress at any time.
C4_OneRender == BagCardinality(renders) <= 1

\* the worlds a forward action would produce now: the handler of Next run by a click, or by
\* the callback of a pending auto-advance timeout whose guard holds
ForwardResults ==
    {btnNextClick(World) : x \in {y \in {1} : FRT.stage # "none" /\ dom.overlayDisplayed}}
    \cup {autoAdvanceCallback(World, t) :
              t \in {u \in BagToSet(autoTimers) : u.index = FRT.partIndex /\ ~FRT.isTyping}}

\* w is one part further along the walk from intro part 1 to the last part of memory
RankUp(w) == Rank(w.FRT.track, w.FRT.partIndex) = Rank(FRT.track, FRT.partIndex) + 1

Stays(w) == w.FRT.track = FRT.track /\ w.FRT.partIndex = FRT.partIndex

\* C5 as stated: every forward action made with no typing in progress and no gate pending
\* moves the play-head one part along the walk from intro part 1 to the last part of memory,
\* and on that last part it completes and tears down the tutorial with the first-run flag set.
C5_ForwardWalkAsStated ==
    ReadyForward =>
        \A w \in ForwardResults :
            IF AtLastPart THEN w.firstRunComplete /\ w.body = {} /\ ~w.dom.overlayDisplayed
            ELSE RankUp(w)

\* C5 amended: the same, except on model part 4, where a forward action leaves the play-head
\* in place (the walk goes on from system_prompt part 1 once the model-load callback has run).
C5_ForwardWalk ==
    ReadyForward =>
        \A w \in ForwardResults :
            IF AtLastPart THEN w.firstRunComplete /\ w.body = {} /\ ~w.dom.overlayDisplayed
            ELSE IF AtDeadEnd THEN Stays(w)
            ELSE RankUp(w)

\* the tutorial was completed by a forward action on the last part of memory: the timeout that
\* the final commit sets is still pending
C5_Witness == AtLastPart /\ TornDown /\ timers.endTutorial

\* w has the play-head on the part that follows in the script
StepUp(w) == <<w.FRT.track, w.FRT.partIndex>> = SuccPart(FRT.track, FRT.partIndex)

\* C6 as stated: a forward action made with no typing in progress and no gate unsatisfied moves
\* the play-head to part i+1 of the track, from the last part of a track to part 1 of the next
\* track, and on the last part of memory completes the tutorial.
C6_ForwardStepAsStated ==
    ReadyForward =>
        \A w \in ForwardResults :
            IF AtLastPart THEN w.firstRunComplete /\ Stays(w) ELSE StepUp(w)

\* C6 amended: the same, except on model part 4, the last part of the model track, where the
\* play-head stays; and no forward action moves the play-head anywhere but to the next part.
C6_ForwardStep ==
    \A w \in ForwardResults :
        IF ReadyForward /\ AtLastPart THEN w.firstRunComplete /\ Stays(w)
        ELSE IF ReadyForward /\ ~AtDeadEnd THEN StepUp(w)
        ELSE Stays(w)

\* a forward action has crossed from the last part of system_prompt to part 1 of context
\* (no Back click was made, and part 1 is being rendered)
C6_Witness ==
    /\ playHead = <<"context", 1>>
    /\ FRT.isTyping
    /\ used.backs = 0
    /\ [track |-> "context", index |-> 1, load |-> FALSE] \in BagToSet(renders)

\* C7: the model-load callback moves the play-head only from the model track.
C7_FromModelTrackOnly ==
    [][(LoadModelOk /\ playHead' # playHead) => FRT.track = "model"]_vars

\* C8: on model part 4 no click on Next and no firing of the auto-advance timer changes the
\* play-head, typing or not, gate or not; the play-head leaves the part for anything but the
\* part before it only by the model-load callback.
C8_DeadEnd ==
    [][AtDeadEnd
       => /\ (NextClick \/ AutoAdvanceFire) => playHead' = playHead
          /\ playHead' \notin {playHead, <<"model", 3>>} => LoadModelOk]_vars

\* Next was clicked on model part 4 (the skip flag is set and no Back click was made) and the
\* play-head is still there, the loader being reachable
C8_Witness == AtDeadEnd /\ FRT.skipRequested /\ used.backs = 0 /\ LoaderReachable

\* C9: a Back click made while no typing is in progress keeps the track and moves the play-head
\* to the part before when the part index is above 1, leaving it in place otherwise, whatever
\* the state of the gate.
C9_BackStep ==
    [][(BackClick /\ ~FRT.isTyping)
       => /\ FRT'.track = FRT.track
          /\ FRT'.partIndex = IF FRT.partIndex > 1 THEN FRT.partIndex - 1 ELSE FRT.partIndex]_vars

\* Back was clicked on system_prompt part 4 while its gate was unsatisfied: part 3 is being
\* rendered and the gate record is still that of part 4
C9_Witness ==
    /\ used.backs > 0
    /\ playHead = <<"system_prompt", 3>>
    /\ FRT.isTyping
    /\ FRT.requiredAction.kind = "chat_any"
    /\ ~FRT.requiredAction.satisfied

\* C10: a click on Next or Back made while typing is in progress changes nothing of the engine
\* state but the skip flag, which it sets: the play-head, the gate record and the render in
\* progress are as before (the aside of an early click, a text of the narrator, leaves its
\* kind behind).
C10_TypingClick ==
    [][(FRT.isTyping /\ (NextClick \/ BackClick))
       => /\ FRT' = [FRT EXCEPT !.skipRequested = TRUE,
                                !.lastOptionalKind = FRT'.lastOptionalKind]
          /\ renders' = renders
          /\ gateMet' = gateMet]_vars

\* a click was made during the render of a part: the skip flag is set and the render goes on
C10_Witness ==
    /\ FRT.isTyping
    /\ FRT.skipRequested
    /\ [track |-> FRT.track, index |-> FRT.partIndex, load |-> FALSE] \in BagToSet(renders)

----------------------------------------------------------------------------
(* C11: for every string and every moment at which skip is requested (before *)
(* the first character, between two characters, or never) the typewriter    *)
(* resolves, and once resolved the element holds exactly the full string    *)
(* and no cursor.                                                           *)
C11_SkipYieldsFullText ==
    /\ [](tw.resolved => tw.textContent = tw.text /\ ~tw.cursor /\ ~tw.timeout)
    /\ <>tw.resolved

\* skip came between two characters of a string, and the invocation resolved
C11_Witness ==
    /\ tw.resolved
    /\ tw.skippedAt \in 1..(Len(tw.text) - 1)
    /\ tw.textContent = tw.text

----------------------------------------------------------------------------
\* the render of the part under the play-head has run to its end
OwnRenderDone ==
    /\ FRT.stage = "script"
    /\ dom.overlayDisplayed
    /\ HasPart(FRT.track, FRT.partIndex)
    /\ ~FRT.isTyping
    /\ \A r \in BagToSet(renders) : <<r.track, r.index>> # playHead

\* C12: on a part that declares no required action, once the render of the part has
\* completed, a forward click is never refused by the gate: no deterrent, no increment of
\* attempts, however the part was reached and whatever gated parts were visited before.
C12_UngatedNeverRefused ==
    (OwnRenderDone /\ ~GatedPart) => ~GateBlocks(World)

----------------------------------------------------------------------------
\* C13: after first-run detection the engine is in stage boot and stays there until a
\* forward action; the engine enters stage script only from stage boot, by a forward action
\* that starts the render of intro part 1.
C13_BootUntilForward ==
    [][(FRT.stage # "script" /\ FRT'.stage = "script")
          => (FRT.stage = "boot" /\ ForwardAction)]_vars

----------------------------------------------------------------------------
\* C14: in a run that starts with the first-run flag absent, the flag is written exactly
\* once if the tutorial completes and never otherwise: completion happens at most once,
\* for every interleaving of the commit's success, forward clicks and the auto-advance timer.
C14_FlagWrittenOnce ==
    FRT.stage # "none" =>
        /\ flagWrites <= 1
        /\ firstRunComplete <=> (flagWrites = 1)

----------------------------------------------------------------------------
\* C15: when the commit request of the final review succeeds on memory part 5, the
\* final_review_confirm gate is satisfied and the review overlay is closed, and the tutorial
\* then reaches the torn-down state with the first-run flag set without any user action.
C15_CommitSuccessCompletes ==
    /\ [][(CommitOk /\ playHead = <<"memory", 5>>)
             => /\ FRT'.requiredAction.satisfied
                /\ FRT'.requiredAction.kind = "none"
                /\ ~dom'.finalReviewOverlay
                /\ timers'.endTutorial]_vars
    /\ (timers.endTutorial ~> TornDown)

\* the commit succeeded on memory part 5 and the timeout it set has torn the tutorial down
C15_Witness ==
    /\ TornDown
    /\ playHead = <<"memory", 5>>
    /\ dom.btnFinalReviewConfirmDisabled
    /\ net.commit = 0
    /\ ~timers.endTutorial
    /\ flagWrites = 1

----------------------------------------------------------------------------
\* C16: a failed commit request completes nothing: the first-run flag, the gate and the
\* staged prompt and identity data are as before, no completion is scheduled, the review
\* stays open with its inline error and the confirm control is enabled again, so the commit
\* can be retried; while a commit request is in flight the control is disabled and at most
\* one request is outstanding.
C16_CommitFailureRetryable ==
    /\ [](net.commit <= 1 /\ (net.commit > 0 => dom.btnFinalReviewConfirmDisabled))
    /\ [][CommitFail =>
             /\ UNCHANGED <<FRT, state, firstRunComplete, flagWrites, body, gateMet>>
             /\ timers'.endTutorial = timers.endTutorial
             /\ dom'.finalReviewOverlay
             /\ dom'.finalReviewError
             /\ ~dom'.btnFinalReviewConfirmDisabled
             /\ net'.commit = 0]_vars

\* a commit failed, the retry succeeded and the tutorial was completed by the retry's timeout
\* while the inline error of the failure was still shown
C16_Witness ==
    /\ dom.finalReviewError
    /\ TornDown
    /\ flagWrites = 1
    /\ net.commit = 0
    /\ dom.btnFinalReviewConfirmDisabled
    /\ ~timers.endTutorial
    /\ state.rpg_tier_a

----------------------------------------------------------------------------
\* C17: a tutorial chat request that fails, by a network error or by an error response of
\* the backend, leaves the required action as it was: it does not satisfy a pending
\* chat_any or chat_repeat gate and counts no chat_repeat mismatch.
C17_FailedChatKeepsGate ==
    [][(ChatFail \/ ChatErrorResponse)
          => (FRT'.requiredAction = FRT.requiredAction /\ mismatches' = mismatches)]_vars

----------------------------------------------------------------------------
\* the hook's wait is over and no request is pending: nothing will change the code block
PacketSettled == packet.waiter # "polling" /\ packet.fetch # "pending"

\* C18: on context part 3, for every outcome of the debug-context request and every timing
\* of the part's steps relative to the hook, the code block ends up showing a context packet
\* (the backend's or the sample) and not the loading placeholder, and the steps of the part
\* are never held up by the wait or by the request.
C18_PacketShown ==
    /\ (PacketSettled /\ packet.el # "absent") => packet.el \in {"sample", "real"}
    /\ packet.step < scripts["context"][3] => ENABLED PacketStep

----------------------------------------------------------------------------
\* C19: in a name-limited track with a stored name, the first string of the track that
\* contains the placeholder gets the stored name in its place, every later string gets the
\* placeholder removed together with a preceding comma, and a string without the
\* placeholder is returned as it is and does not use up the track's single use.
C19_NameOncePerTrack ==
    (names.calls > 0 /\ names.name # "" /\ names.track \in NameLimitedTracks) =>
        IF HasName(names.text)
        THEN IF ~names.before
             THEN names.out = replaceName(names.text, names.name)
             ELSE names.out = removeName(removeCommaName(names.text))
        ELSE names.out = names.text /\ names.used = names.usedBefore

----------------------------------------------------------------------------
\* the validity predicate of question i fails on the answers a: a required text is empty
\* after trimming, no single choice is made, no multi choice is selected
PredicateFails(i, a) ==
    \/ i = 0 /\ trim(a.name) = <<>>
    \/ i = 1 /\ a.domain = ""
    \/ i = 2 /\ a.style = ""
    \/ i = 3 /\ a.capabilities = <<>>

----------------------------------------------------------------------------
\* C21: the capabilities answer never holds more than maxChoices choices nor a choice twice,
\* whatever the navigation; while the multi-choice question is shown the checked boxes are
\* exactly the choices of the answer; and the change listener of a box that is checked when
\* maxChoices choices are selected leaves the wizard as it was, the box unchecked.
C21_MaxChoices ==
    LET caps == wizard.answers.capabilities
    IN  /\ Len(caps) <= maxChoices
        /\ Cardinality(Elements(caps)) = Len(caps)
        /\ (QuestionShown /\ RPG_QUESTIONS[wizard.currentIndex].type = "multi") =>
               /\ wizard.checked = Elements(caps)
               /\ Len(caps) = maxChoices =>
                      \A c \in MultiChoices \ Elements(caps) : checkboxChange(wizard, c) = wizard

\* the multi-choice question shown again, three choices selected, after the last question
\* was answered
C21_Witness ==
    /\ QuestionShown
    /\ RPG_QUESTIONS[wizard.currentIndex].type = "multi"
    /\ Len(wizard.answers.capabilities) = maxChoices
    /\ wizard.answers.custom = <<"a">>
    /\ wizard.checked = Elements(wizard.answers.capabilities)

----------------------------------------------------------------------------
\* C22: at most one loading-stage timeout is pending at any time, so that no submission
\* starts while the loading stage is showing, and none is pending any more once the review
\* stage is presented.
C22_OneSubmission ==
    /\ Len(wizard.loading) <= 1
    /\ wizard.review => wizard.loading = <<>>

----------------------------------------------------------------------------
\* the items of l separated by commas, the last one preceded by a comma and "and"
OxfordList(l) ==
    [k \in 1..(2 * Len(l) - 1) |->
        IF k % 2 = 1 THEN l[(k + 1) \div 2]
        ELSE IF k = 2 * Len(l) - 2 THEN ", and " ELSE ", "]

\* the capability clause as the specification words it
ClauseOf(caps) ==
    LET l == [k \in 1..Len(caps) |-> Lower(caps[k])]
    IN  IF Len(l) = 0 THEN <<>>
        ELSE IF Len(l) = 1 THEN <<"You specialize in ", l[1], ".">>
        ELSE IF Len(l) = 2 THEN <<"You excel at ", l[1], " and ", l[2], ".">>
        ELSE <<"You excel at ">> \o OxfordList(l) \o <<".">>

\* where a capability clause starts in a prompt
ClauseStarts(prompt) ==
    {i \in 1..Len(prompt) : prompt[i] \in {"You specialize in ", "You excel at "}}

\* C23: the submission of any answer set leaves the answer set as it was, and the prompt it
\* generates holds no capability clause for no capability, and otherwise exactly one, worded
\* "You specialize in a." for one capability, "You excel at a and b." for two, and for
\* three or more the lower-cased list with a comma before the final "and".
C23_CapabilityClause ==
    [][WizardNextClick =>
          LET prompt == Head(wizard'.loading)
              clause == ClauseOf(wizard.answers.capabilities)
          IN  /\ wizard'.answers = wizard.answers
              /\ wizard'.session.rpg_system_prompt = prompt
              /\ IF clause = <<>> THEN ClauseStarts(prompt) = {}
                 ELSE \E i \in 1..Len(prompt) :
                         /\ ClauseStarts(prompt) = {i}
                         /\ i + Len(clause) - 1 <= Len(prompt)
                         /\ SubSeq(prompt, i, i + Len(clause) - 1) = clause]_vars

\* three capabilities, one of them written with a capital, were submitted
C23_Witness ==
    /\ wizard.loading # <<>>
    /\ wizard.answers.capabilities = <<"c", "A", "d">>
    /\ wizard.answers.custom = <<"a">>
    /\ wizard.session.rpg_answers = <<wizard.answers>>

----------------------------------------------------------------------------
\* C24: Start Over answered with OK leaves the default template in the editor and its
\* length in the counter, whatever the editor held; answered with Cancel it hides the review
\* stage and shows the wizard at its last question, every answer as it was.
C24_StartOver ==
    /\ [][WizardStartOverOk =>
              /\ wizard'.editor = DEFAULT_PROMPT
              /\ wizard'.charCount = Len(DEFAULT_PROMPT)
              /\ wizard'.review]_vars
    /\ [](wizard.review => startOverOk(wizard).charCount = Len(startOverOk(wizard).editor))
    /\ [][WizardBackToQuestions =>
              /\ ~wizard'.review
              /\ ~wizard'.hidden
              /\ wizard'.currentIndex = LastQuestion
              /\ wizard'.answers = wizard.answers]_vars

\* the default template was loaded over an edited text, then a second Start Over was
\* answered with Cancel
C24_Witness ==
    /\ ~wizard.review
    /\ ~wizard.hidden
    /\ wizard.currentIndex = LastQuestion
    /\ wizard.editor = DEFAULT_PROMPT
    /\ wizard.charCount = Len(DEFAULT_PROMPT)
    /\ Len(wizard.answers.capabilities) = maxChoices

----------------------------------------------------------------------------
\* C26: a failed save request enables the use-prompt button again and leaves the editor's
\* text, the review stage, the tutorial's active prompt, the staged identity, the stored
\* prompt and the play-head as they were; and a click on the button while the editor is
\* empty after trimming changes nothing and sends no request.
C26_SaveFailure ==
    /\ [][WizardSaveFail =>
              /\ ~wizard'.saveBtnDisabled
              /\ wizard'.editor = wizard.editor
              /\ wizard'.review = wizard.review
              /\ wizard'.session = wizard.session
              /\ wizard'.userPreferredName = wizard.userPreferredName
              /\ wizard'.resume = wizard.resume
              /\ Len(wizard'.save) < Len(wizard.save)
              /\ UNCHANGED <<state, FRT>>]_vars
    /\ []((wizard.review /\ ~wizard.saveBtnDisabled /\ trim(wizard.editor) = <<>>) =>
              usePromptClick(wizard) = wizard)
    /\ [](Len(wizard.save) <= 1)

\* the request that carries the trimmed text of the editor is in flight, the review stage
\* open and nothing committed yet: the request may now fail
C26_Witness ==
    /\ wizard.review
    /\ wizard.editor = <<" ", "a">>
    /\ wizard.save = <<<<"a">>>>
    /\ wizard.saveBtnDisabled
    /\ wizard.resume = 0
    /\ wizard.session.rpg_tier_a = <<>>
    /\ state.tutorialSystemPromptId = "default"
    /\ ENABLED WizardSaveFail

----------------------------------------------------------------------------
\* C25: a successful save of the wizard's prompt makes the committed text the tutorial's
\* active prompt, with id "custom", stages the identity answers and sets the resume timeout;
\* when that timeout fires during the tutorial the play-head becomes (system_prompt, 11) and
\* the render of that part starts, the wizard's screens hidden.
C25_ResumeAtReturnPoint ==
    /\ [][RpgSaveOk =>
              /\ state'.tutorialSystemPromptId = "custom"
              /\ state'.tutorialSystemPromptText = rpg.prompt
              /\ rpg.prompt # <<>>
              /\ state'.rpg_tier_a
              /\ timers'.rpgResume]_vars
    /\ [][(RpgResume /\ "first-run-tutorial" \in body) =>
              /\ playHead' = <<"system_prompt", 11>>
              /\ FRT'.isTyping
              /\ renders' = renders (+) SetToBag({[track |-> "system_prompt", index |-> 11,
                                                   load |-> FALSE]})
              /\ ~rpg'.review /\ ~rpg'.overlay]_vars

\* the narrator has resumed at the return point with the committed prompt active
C25_Witness ==
    /\ playHead = <<"system_prompt", 11>>
    /\ state.tutorialSystemPromptId = "custom"
    /\ state.tutorialSystemPromptText = <<"a">>
    /\ state.rpg_tier_a
    /\ rpg.saveBtnDisabled
    /\ ~timers.rpgResume
    /\ ~rpg.review
    /\ [track |-> "system_prompt", index |-> 11, load |-> FALSE] \in BagToSet(renders)

----------------------------------------------------------------------------
\* C27: once an interaction has cancelled the auto-advance of a part visit, no auto-advance
\* timeout performs a forward click during that visit.
C27_InteractionCancels ==
    [][AutoAdvanceClick => ~FRT.autoAdvanceBlocked]_vars

----------------------------------------------------------------------------
\* the parts whose render starts in a step: a render suspended at its steps has appeared, or
\* the play-head has come to a part without steps
Started ==
    {r \in BagToSet(renders') : CopiesIn(r, renders') > CopiesIn(r, renders)}
        \cup (IF playHead' # playHead /\ HasPart(FRT'.track, FRT'.partIndex)
                  /\ ~HasSteps(FRT'.track, FRT'.partIndex)
               THEN {[track |-> FRT'.track, index |-> FRT'.partIndex, load |-> FALSE]}
               ELSE {})

\* what a hook leaves behind
HookEffect(hook) ==
    CASE hook = "SHOW_MODEL_LOADER_RAIL" -> "frt-allow-right-rail" \in body
      [] hook = "ENABLE_SPLIT_CHAT" -> "frt-split-with-chat" \in body /\ ~dom.promptDisabled
      [] hook = "SWAP_PROMPT_PIRATE" -> state.tutorialSystemPromptText = TUTORIAL_PROMPT_PIRATE
      [] hook = "SWAP_PROMPT_DEFAULT" -> state.tutorialSystemPromptText = TUTORIAL_PROMPT_DEFAULT
      [] hook = "LAUNCH_SYSTEM_PROMPT_RPG" -> timers.rpgLaunch > 0
      [] hook = "SHOW_FINAL_REVIEW" -> dom.finalReviewOverlay
      [] hook = "DISABLE_SPLIT_CHAT" -> "frt-split-with-chat" \notin body /\ dom.promptDisabled
      [] OTHER -> TRUE

\* C28: when the render of a part starts, the part's hook has run, once, before the first
\* step; and nothing else runs a hook: the wizard is launched, split chat enabled, the pirate
\* prompt swapped in and the final review shown only by the start of a render of a part that
\* declares that hook, never by a skip request, a refused click or the end of a render.
C28_HookOncePerEntry ==
    /\ [][\A r \in Started :
              /\ HookEffect(onEnter(r.track, r.index))'
              /\ onEnter(r.track, r.index) = "LAUNCH_SYSTEM_PROMPT_RPG" =>
                     timers'.rpgLaunch = timers.rpgLaunch + 1]_vars
    /\ [][timers'.rpgLaunch > timers.rpgLaunch =>
              \E r \in Started : onEnter(r.track, r.index) = "LAUNCH_SYSTEM_PROMPT_RPG"]_vars
    /\ [][("frt-split-with-chat" \in body' \ body) =>
              \E r \in Started : onEnter(r.track, r.index) = "ENABLE_SPLIT_CHAT"]_vars
    /\ [][(state'.tutorialSystemPromptId = "pirate" /\ state.tutorialSystemPromptId # "pirate") =>
              \E r \in Started : onEnter(r.track, r.index) = "SWAP_PROMPT_PIRATE"]_vars
    /\ [][(dom'.finalReviewOverlay /\ ~dom.finalReviewOverlay) =>
              \E r \in Started : onEnter(r.track, r.index) = "SHOW_FINAL_REVIEW"]_vars

\* the part that shows the final review is still being typed, a skip was requested, and the
\* final review is already shown
C28_Witness ==
    /\ \E r \in BagToSet(renders) :
           /\ onEnter(r.track, r.index) = "SHOW_FINAL_REVIEW"
           /\ playHead = <<r.track, r.index>>
    /\ BagCardinality(renders) = 1
    /\ FRT.isTyping
    /\ FRT.skipRequested
    /\ dom.finalReviewOverlay

----------------------------------------------------------------------------
\* an auto-advance timeout is set in a step
Armed == \E t \in BagToSet(autoTimers') : CopiesIn(t, autoTimers') > CopiesIn(t, autoTimers)

\* C29: an auto-advance timeout is set only while the tutorial runs in script stage, never
\* with the play-head on model part 4 or on system_prompt parts 4 to 10, never while split
\* chat mode is on, never on a part whose hook is ENABLE_SPLIT_CHAT or
\* LAUNCH_SYSTEM_PROMPT_RPG; and at most one such timeout is pending at any time.
C29_ArmingEligibility ==
    /\ [][Armed =>
              /\ "first-run-tutorial" \in body'
              /\ FRT'.stage = "script"
              /\ playHead' # <<"model", 4>>
              /\ "frt-split-with-chat" \notin body'
              /\ ~(FRT'.track = "system_prompt" /\ FRT'.partIndex \in 4..10)
              /\ onEnter(FRT'.track, FRT'.partIndex)
                     \notin {"ENABLE_SPLIT_CHAT", "LAUNCH_SYSTEM_PROMPT_RPG"}]_vars
    /\ [](BagCardinality(autoTimers) <= 1)

\* an idle line is surfaced in this step
IdleShown == FRT'.lastOptionalKind = "idle" /\ FRT.lastOptionalKind # "idle"

\* C30: when an idle line is surfaced, the timeout that fired was set by a visit which the
\* play-head has not left, it is on the part of that visit, and nothing is being typed.
C30_IdleLineOfThisVisit ==
    [][IdleShown =>
          \A t \in BagToSet(timers.idle) :
              CopiesIn(t, timers'.idle) < CopiesIn(t, timers.idle) =>
                  /\ ~t.left
                  /\ <<t.track, t.index>> = playHead
                  /\ ~FRT.isTyping]_vars

----------------------------------------------------------------------------
\* C31: the skip flag is false when the render of a part starts, and it becomes true only by
\* a click made while a part is typed, which leaves the play-head where it is: a skip asked
\* for during one part is not seen by the render of the next.
C31_SkipResetAtStart ==
    /\ [][Started # {} => ~FRT'.skipRequested]_vars
    /\ [][(FRT'.skipRequested /\ ~FRT.skipRequested)
             => FRT.isTyping /\ playHead' = playHead /\ renders' = renders]_vars

\* a render was started while another one, for which skip may have been asked, was suspended:
\* two renders are in progress and the flag is false
C31_Witness ==
    /\ BagCardinality(renders) = 2
    /\ FRT.isTyping
    /\ ~FRT.skipRequested
    /\ playHead = <<"system_prompt", 1>>
    /\ [track |-> "model", index |-> 4, load |-> FALSE] \in BagToSet(renders)

----------------------------------------------------------------------------
\* C32: a forward click refused by an unsatisfied chat_any or chat_repeat gate adds exactly one
\* to the gate's attempts and shows the deterrent line chosen by the count before the click,
\* the last line once the count is past the table; refused by the final_review_confirm gate it
\* shows the one reminder of that gate and leaves the count as it is.
C32_GateRefusal ==
    (FRT.stage = "script" /\ ~FRT.isTyping /\ GateBlocks(World)) =>
        LET ra == FRT.requiredAction
            w  == btnNextClick(World)
        IN  /\ w.FRT.requiredAction.satisfied = FALSE
            /\ playHead = <<w.FRT.track, w.FRT.partIndex>>
            /\ ra.kind \in {"chat_any", "chat_repeat"} =>
                   /\ w.FRT.requiredAction.attempts = ra.attempts + 1
                   /\ w.dom.optional = <<"antiSkipLines", "", IF ra.attempts < 2 THEN ra.attempts ELSE 2>>
            /\ ra.kind = "final_review_confirm" =>
                   /\ w.FRT.requiredAction.attempts = ra.attempts
                   /\ w.dom.optional = Fixed("gate-final-review")

\* the fourth refusal by the chat_repeat gate has shown the last deterrent line
C32_Witness ==
    /\ playHead = <<"system_prompt", 7>>
    /\ GateBlocks(World)
    /\ FRT.requiredAction.attempts = 4
    /\ dom.optional = antiSkipLines[3]
    /\ timers.optionalReset > 0

----------------------------------------------------------------------------
\* C33: while the stage is "script" the play-head names a part of the script: the track is one
\* of the five and the index lies between 1 and the last index of that track; and every render
\* that starts is the render of such a part, never of index 0 nor of one past the end.
C33_PlayHeadOnPart ==
    /\ [](FRT.stage = "script" =>
             /\ FRT.track \in {"intro", "model", "system_prompt", "context", "memory"}
             /\ FRT.partIndex >= 1
             /\ FRT.partIndex <= getMaxPart(FRT.track))
    /\ [][\A r \in Started :
              /\ r.index >= 1
              /\ r.index <= getMaxPart(r.track)
              /\ <<r.track, r.index>> = playHead']_vars

\* the forward click on the last part of the system prompt track has started the first part
\* of the context track
C33_Witness ==
    /\ FRT.stage = "script"
    /\ playHead = <<"context", 1>>
    /\ used.backs = 0

----------------------------------------------------------------------------
\* C34: the armed, unsatisfied gate of the part under the play-head stops blocking, the
\* play-head staying on that part, only by the gate's own required action: a chat gate when
\* the response of a tutorial chat has been read to its end, the final review gate when a
\* commit request has succeeded. No click, key, pointer event or timer does it.
GateOpened ==
    /\ GateBlocks(World)
    /\ OwnGate(World)
    /\ playHead' = playHead
    /\ FRT'.requiredAction.kind = "none" \/ FRT'.requiredAction.satisfied

C34_OwnActionOnly ==
    [][GateOpened =>
          IF FRT.requiredAction.kind = "final_review_confirm"
          THEN net'.commit < net.commit
          ELSE /\ net.chat.phase = "request"
               /\ net.chat.tutorial
               /\ net'.chat.phase = "display"]_vars

----------------------------------------------------------------------------
\* C35: whenever the chat_repeat gate of system_prompt part 7 is armed and unsatisfied, with
\* the play-head on that part, the active tutorial system prompt is the pirate prompt.
C35_PirateAtRepeatGate ==
    (/\ playHead = <<"system_prompt", 7>>
     /\ FRT.requiredAction.kind = "chat_repeat"
     /\ ~FRT.requiredAction.satisfied)
        => /\ state.tutorialSystemPromptId = "pirate"
           /\ state.tutorialSystemPromptText = TUTORIAL_PROMPT_PIRATE

----------------------------------------------------------------------------
\* C36: at most one chat request is in progress: a request is sent only when none is in
\* progress, and while a response is being generated a submission changes nothing, so it
\* sends no request, adds no entry to the tutorial history and leaves the gate as it is.
C36_OneChatRequest ==
    /\ [](net.chat.phase # "idle" => state.isGenerating)
    /\ [](state.isGenerating => \A value \in PromptValues : chatSend(World, value) = World)
    /\ [][(net'.chat.phase = "request" /\ state'.tutorialHistory # state.tutorialHistory)
             => /\ net.chat = NoChat
                /\ ~state.isGenerating
                /\ state'.tutorialHistory = Append(state.tutorialHistory, "user")
                /\ FRT' = FRT]_vars

\* a second exchange is in progress at the chat_repeat gate, which counted the first as a
\* mismatch: the history holds the three entries of the submissions that were sent
C36_Witness ==
    /\ playHead = <<"system_prompt", 7>>
    /\ state.isGenerating
    /\ net.chat.phase = "request"
    /\ state.tutorialHistory = <<"user", "assistant", "user">>
    /\ FRT.requiredAction.attempts = 1
    /\ GateBlocks(World)

----------------------------------------------------------------------------
\* C37: whenever the review stage of the wizard is presented, the use-prompt control is
\* disabled exactly while a save request is in flight (the moment between a successful save
\* and the hiding of the review stage left aside), also on a second pass through the wizard.
C37_UsePromptEnabled ==
    (rpg.review /\ ~timers.rpgResume) => (rpg.saveBtnDisabled <=> net.save)

----------------------------------------------------------------------------
\* C38: in a first run without user input, auto-advance alone brings the play-head to every
\* part of the intro track and of the model track up to model part 4, and the play-head leaves
\* model part 4 only when a model load has succeeded.
AutoParts ==
    {<<"intro", i>> : i \in 1..getMaxPart("intro")} \cup {<<"model", i>> : i \in 1..4}

C38_AutoAdvanceToModel4 ==
    /\ \A p \in AutoParts : <>(FRT.stage = "script" /\ playHead = p)
    /\ [][(playHead = <<"model", 4>> /\ playHead' # playHead) => (net.load /\ ~net'.load)]_vars

\* the play-head rests on model part 4, no timeout pending, no model loaded
C38_Witness ==
    /\ playHead = <<"model", 4>>
    /\ ~FRT.isTyping
    /\ autoTimers = EmptyBag
    /\ used.loads = 0
    /\ used.renders = getMaxPart("intro") + 4

----------------------------------------------------------------------------
\* C39: in the setup wizard at most one status-polling interval is active at a time, and once
\* runWizard has returned after Continue none is active, whenever the pending download
\* request completes.
C39_PollingStops ==
    /\ setupw.intervals <= 1
    /\ setupw.stage = "returned" => setupw.intervals = 0

----------------------------------------------------------------------------
\* C40: after render(st) the Update now control is enabled exactly when the status is
\* supported, the working tree is not dirty and behind is a number greater than 0.
C40_UpdateNowEnabled ==
    updater.st.rendered =>
        (~updater.applyDisabled <=>
            /\ Truthy(updater.st.supported)
            /\ ~Truthy(updater.st.dirty)
            /\ updater.st.behind.t = "number"
            /\ updater.st.behind.n > 0)

\* a supported, clean status one commit behind was rendered: the control is enabled
C40_Witness ==
    /\ updater.st = Rendered([supported |-> JsBool(TRUE), dirty |-> JsBool(FALSE),
                              behind |-> JsNum(1)])
    /\ updater.body = "status"
    /\ ~updater.applyDisabled

============================================================================
